---------------------------- MODULE Spec2Model ----------------------------
(***************************************************************************)
(* Model of the Nuclear Alabaster Chainsaw runtime: the slot heap with its *)
(* free list (src/src/vm.rs, Heap), the stack VM's step function           *)
(* (src/src/vm.rs, Vm::step), the native functions the VM calls            *)
(* (src/src/main.rs, src/src/sdl.rs) and the collection cycle's sweep      *)
(* (src/src/gc.rs, GcApp::update).                                         *)
(*                                                                         *)
(* Rust vectors are 0-based: a Vec is modelled by a sequence and read with *)
(* At(v, i) == v[i + 1]; the heap's slot vector is a function on 0..n-1 so *)
(* that a slot's "address" is its index.  A panic (panic!, todo!,          *)
(* unreachable!, unwrap on None, expect) ends the run: result = "Fatal".   *)
(***************************************************************************)
EXTENDS Integers, Sequences, FiniteSets, TLC

VARIABLES
    heap,              \* Runtime.heap: [next_free, objects]
    globals,           \* Runtime.globals: Vec<Value>
    global_name_map,   \* Runtime.global_name_map: name -> index
    field_to_id_map,   \* Runtime.field_to_id_map: name -> id
    functions,         \* Runtime.functions: Vec<FunctionDef>
    stack,             \* Runtime.stack: Vec<Value>
    ip,                \* Runtime.ip
    interner,          \* Runtime.interner.strings: Vec<String>
    gc_metrics,        \* Runtime.gc_metrics
    module,            \* the Module being run: [code, constants]
    events,            \* the SDL event queue read by EventPump::poll_event
    op,                \* the last operation performed (its name)
    prevOp,            \* the operation before that
    result,            \* what the last step returned (or "Fatal" on a panic)
    inst,              \* the instruction the last step fetched
    needs_gc,          \* the needs_gc flag of the last Call
    pre,               \* the state the last operation started from
    marked,            \* the mark vector of the last sweep
    ret,               \* the value the last heap call returned
    output,            \* the lines print has written to stdout
    source             \* the sources given to run or compile, one after the other

vars == <<heap, globals, global_name_map, field_to_id_map, functions, stack,
          ip, interner, gc_metrics, module, events, op, prevOp, result, inst,
          needs_gc, pre, marked, ret, output, source>>

(***************************************************************************)
(* Bounds of the model.                                                    *)
(***************************************************************************)
\* Number of heap slots (Heap::new(size)); the spec's scenario 6 uses 2.
HeapSlots == 2
\* Number of SDL events the environment delivers during a run.
MaxEvents == 2
\* Cap on gc_metrics.total_garbage_collected (an unbounded counter).
MaxCollected == 4
\* Depth to which the IF and WHILE statements of a source are nested.
MaxDepth == 2
\* Number of natives the host registers before the first line.
MaxFunctions == 2
\* Number of lines the REPL runs.
MaxLines == 2

(***************************************************************************)
(* Value (vm.rs 71-80).  The payload v is a number in every variant:       *)
(* Bool(false) = 0, Bool(true) = 1.                                        *)
(***************************************************************************)
Nil == [t |-> "Nil", v |-> 0]
Bool(b) == [t |-> "Bool", v |-> IF b THEN 1 ELSE 0]
Number(n) == [t |-> "Number", v |-> n]
String(id) == [t |-> "String", v |-> id]
FunctionPtr(id) == [t |-> "FunctionPtr", v |-> id]
Object(addr) == [t |-> "Object", v |-> addr]
ExternObject(addr) == [t |-> "ExternObject", v |-> addr]

\* Option<u32>::None
None == -1

At(vec, i) == vec[i + 1]
Push(vec, x) == Append(vec, x)
\* Vec::pop on a non-empty vector: the vector without its last element.
PopVec(vec) == SubSeq(vec, 1, Len(vec) - 1)
Last(vec) == vec[Len(vec)]
\* Vec::truncate(len)
Truncate(vec, len) == IF len < Len(vec) THEN SubSeq(vec, 1, len) ELSE vec

\* HashMap: a function on the set of keys present.
EmptyMap == [k \in {} |-> Nil]
MapInsert(m, k, val) == [x \in (DOMAIN m) \cup {k} |-> IF x = k THEN val ELSE m[x]]
\* obj.data.get(&index).copied().unwrap_or(Value::Nil)
MapGetOrNil(m, k) == IF k \in DOMAIN m THEN m[k] ELSE Nil

(***************************************************************************)
(* HeapValue (vm.rs 379-383).  One record shape for the three variants:    *)
(* next is meaningful for Free, data for Object, ty (the payload's type)   *)
(* for Extern.                                                             *)
(***************************************************************************)
HvFree(next) == [k |-> "Free", next |-> next, data |-> EmptyMap, ty |-> ""]
HvObject(data) == [k |-> "Object", next |-> 0, data |-> data, ty |-> ""]
HvExtern(ty) == [k |-> "Extern", next |-> 0, data |-> EmptyMap, ty |-> ty]

\* Heap::size
HeapSize(h) == Cardinality(DOMAIN h.objects)

\* Heap::new
HeapNew(size) ==
    [next_free |-> 0, objects |-> [i \in 0..(size - 1) |-> HvFree(i + 1)]]

(***************************************************************************)
(* Heap::free: the slot is overwritten by Free{next: next_free} whatever   *)
(* it held, and becomes the head.  panic is TRUE for an invalid address.   *)
(***************************************************************************)
HeapFreeKeepsHead(h, addr) ==
    IF addr >= HeapSize(h)
    THEN [heap |-> h, panic |-> TRUE]
    ELSE [heap |-> [next_free |-> h.next_free,
                    objects |-> [h.objects EXCEPT ![addr] = HvFree(h.next_free)]],
          panic |-> FALSE]

HeapFree(h, addr) ==
    IF addr >= HeapSize(h)
    THEN [heap |-> h, panic |-> TRUE]
    ELSE [heap |-> [next_free |-> addr,
                    objects |-> [h.objects EXCEPT ![addr] = HvFree(h.next_free)]],
          panic |-> FALSE]

(***************************************************************************)
(* Heap::sweep: the unmarked addresses are freed in ascending order and    *)
(* counted.  SweepFrom is the iterator chain from address addr on.         *)
(***************************************************************************)
RECURSIVE SweepFrom(_, _, _)
SweepFrom(h, marks, addr) ==
    IF addr >= HeapSize(h)
    THEN [heap |-> h, free_count |-> 0]
    ELSE IF ~marks[addr]
         THEN LET rest == SweepFrom(HeapFree(h, addr).heap, marks, addr + 1)
              IN  [heap |-> rest.heap, free_count |-> rest.free_count + 1]
         ELSE SweepFrom(h, marks, addr + 1)

\* The filter inverted: frees the marked slots.
HeapSweepInverted(h, marks) ==
    IF DOMAIN marks # DOMAIN h.objects
    THEN [heap |-> h, ret |-> 0, panic |-> TRUE]
    ELSE LET r == SweepFrom(h, [i \in DOMAIN marks |-> ~marks[i]], 0)
         IN  [heap |-> r.heap, ret |-> r.free_count, panic |-> FALSE]

HeapSweep(h, marks) ==
    IF DOMAIN marks # DOMAIN h.objects
    THEN [heap |-> h, ret |-> 0, panic |-> TRUE]
    ELSE LET r == SweepFrom(h, marks, 0)
         IN  [heap |-> r.heap, ret |-> r.free_count, panic |-> FALSE]

(***************************************************************************)
(* Heap::alloc and Heap::alloc_extern: take the head slot when the head is *)
(* in range; unreachable!() when that slot is not Free.                    *)
(***************************************************************************)
\* An allocation that leaves the head on the slot it took.
HeapInstallKeepsHead(h, hv) ==
    IF h.next_free < HeapSize(h)
    THEN LET index == h.next_free
             slot == h.objects[index]
         IN  IF slot.k # "Free"
             THEN [heap |-> h, ret |-> None, panic |-> TRUE]
             ELSE [heap |-> [next_free |-> index,
                             objects |-> [h.objects EXCEPT ![index] = hv]],
                   ret |-> index, panic |-> FALSE]
    ELSE [heap |-> h, ret |-> None, panic |-> FALSE]

HeapInstall(h, hv) ==
    IF h.next_free < HeapSize(h)
    THEN LET index == h.next_free
             slot == h.objects[index]
         IN  IF slot.k # "Free"
             THEN [heap |-> h, ret |-> None, panic |-> TRUE]
             ELSE [heap |-> [next_free |-> slot.next,
                             objects |-> [h.objects EXCEPT ![index] = hv]],
                   ret |-> index, panic |-> FALSE]
    ELSE [heap |-> h, ret |-> None, panic |-> FALSE]

\* alloc that takes the slot off the free list and installs nothing in it.
HeapAllocLeavesSlot(h) ==
    LET r == HeapInstall(h, HvObject(EmptyMap))
    IN  [r EXCEPT !.heap.objects = h.objects]

HeapAlloc(h) == HeapInstall(h, HvObject(EmptyMap))

HeapAllocExtern(h, ty) == HeapInstall(h, HvExtern(ty))

(***************************************************************************)
(* Heap::take_extern and Heap::try_take_extern: the slot is replaced by    *)
(* Free{next: next_free} and becomes the head, whatever it held; then      *)
(* take_extern hits unreachable!() when it held no Extern, and             *)
(* try_take_extern answers None.  ret is the address when an extern was    *)
(* taken, ty its type.                                                     *)
(***************************************************************************)
HeapTakeExtern(h, addr) ==
    IF addr >= HeapSize(h)
    THEN [heap |-> h, ret |-> None, ty |-> "", panic |-> TRUE]
    ELSE [heap |-> [next_free |-> addr,
                    objects |-> [h.objects EXCEPT ![addr] = HvFree(h.next_free)]],
          ret |-> IF h.objects[addr].k = "Extern" THEN addr ELSE None,
          ty |-> h.objects[addr].ty,
          panic |-> h.objects[addr].k # "Extern"]

HeapTryTakeExtern(h, addr) ==
    IF addr >= HeapSize(h)
    THEN [heap |-> h, ret |-> None, ty |-> "", panic |-> TRUE]
    ELSE [heap |-> [next_free |-> addr,
                    objects |-> [h.objects EXCEPT ![addr] = HvFree(h.next_free)]],
          ret |-> IF h.objects[addr].k = "Extern" THEN addr ELSE None,
          ty |-> h.objects[addr].ty,
          panic |-> FALSE]

\* Heap::insert: the head becomes the slot's next when the slot is Free; the
\* slot becomes the Extern.  An address out of range is an index panic.
HeapInsert(h, addr, ty) ==
    IF addr >= HeapSize(h)
    THEN [heap |-> h, panic |-> TRUE]
    ELSE [heap |-> [next_free |-> IF h.objects[addr].k = "Free"
                                  THEN h.objects[addr].next
                                  ELSE h.next_free,
                    objects |-> [h.objects EXCEPT ![addr] = HvExtern(ty)]],
          panic |-> FALSE]


\* get that takes a Free slot for an object without fields.
HeapGetOfFreed(h, index) ==
    LET slot == h.objects[index]
    IN  [some |-> slot.k # "Extern", panic |-> slot.k = "Extern", data |-> slot.data]

(***************************************************************************)
(* Heap::get / Heap::get_mut: Some(object) for an Object slot, None for a  *)
(* Free slot, unreachable!() for an Extern slot.                           *)
(***************************************************************************)
HeapGet(h, index) ==
    LET slot == h.objects[index]
    IN  [some |-> slot.k = "Object", panic |-> slot.k = "Extern", data |-> slot.data]

\* Heap::get_extern / Heap::get_extern_mut: the strict accessor for externs.
HeapGetExtern(h, index) ==
    LET slot == h.objects[index]
    IN  [some |-> slot.k = "Extern", panic |-> slot.k = "Object", ty |-> slot.ty]

\* insert that starts the object's map afresh.
HeapSetFieldAlone(h, addr, index, value) ==
    [h EXCEPT !.objects[addr] = HvObject(MapInsert(EmptyMap, index, value))]

\* heap.get_mut(addr) followed by obj.data.insert(index, value) on Some(obj).
HeapSetField(h, addr, index, value) ==
    [h EXCEPT !.objects[addr] = HvObject(MapInsert(h.objects[addr].data, index, value))]

(***************************************************************************)
(* The free chain: the slots visited by following next from the head, as   *)
(* long as the slot visited is in range, Free and not visited before.      *)
(* stop is the index the walk stopped at.                                  *)
(***************************************************************************)
RECURSIVE FreeWalk(_, _, _)
FreeWalk(h, cur, seen) ==
    IF cur \notin DOMAIN h.objects THEN [seen |-> seen, stop |-> cur, why |-> "end"]
    ELSE IF cur \in seen THEN [seen |-> seen, stop |-> cur, why |-> "cycle"]
    ELSE IF h.objects[cur].k # "Free" THEN [seen |-> seen, stop |-> cur, why |-> "occupied"]
    ELSE FreeWalk(h, h.objects[cur].next, seen \cup {cur})

FreeChain(h) == FreeWalk(h, h.next_free, {})
FreeSlots(h) == {i \in DOMAIN h.objects : h.objects[i].k = "Free"}
OccupiedSlots(h) == {i \in DOMAIN h.objects : h.objects[i].k # "Free"}

\* The free chain threads exactly the Free slots, once each, and ends at n.
WellFormed(h) ==
    LET w == FreeChain(h)
    IN  /\ w.why = "end"
        /\ w.stop = HeapSize(h)
        /\ w.seen = FreeSlots(h)

(***************************************************************************)
(* The state an operation starts from, kept for the claims that compare    *)
(* before and after.                                                       *)
(***************************************************************************)
Snapshot ==
    [ip |-> ip, stack |-> stack, globals |-> globals, heap |-> heap,
     interner |-> interner, field_to_id_map |-> field_to_id_map,
     events |-> events, result |-> result, inst |-> inst, output |-> output]

Halt == [i |-> "Halt", a |-> 0, b |-> 0]
NoMarks == [i \in 0..(HeapSlots - 1) |-> FALSE]
MarkVectors == [0..(HeapSlots - 1) -> BOOLEAN]

(***************************************************************************)
(* HeapSpec: a heap from Heap::new(HeapSlots) under any sequence of calls  *)
(* of its public methods alloc, alloc_extern, free, take_extern,           *)
(* try_take_extern and sweep, and of field writes through get_mut.  The    *)
(* rest of the Runtime is as Runtime::new leaves it.                       *)
(***************************************************************************)
HeapFieldIds == {0}
HeapFieldValues == {Number(1), Object(0)}
HeapExternTypes == {"Sdl"}

HeapInit ==
    /\ heap = HeapNew(HeapSlots)
    /\ globals = << >>
    /\ global_name_map = EmptyMap
    /\ field_to_id_map = EmptyMap
    /\ functions = << >>
    /\ stack = << >>
    /\ ip = 0
    /\ interner = << >>
    /\ gc_metrics = [total_cycles |-> 0, total_garbage_collected |-> 0]
    /\ module = [code |-> <<Halt>>, constants |-> << >>]
    /\ events = << >>
    /\ output = << >>
    /\ source = << >>
    /\ op = "new"
    /\ prevOp = "new"
    /\ result = "Ok"
    /\ inst = Halt
    /\ needs_gc = FALSE
    /\ pre = Snapshot
    /\ marked = NoMarks
    /\ ret = None

\* What a heap call leaves alone, and the bookkeeping of the call.
HeapCall(name, r, marks) ==
    /\ result # "Fatal"
    /\ heap' = r.heap
    /\ ret' = r.ret
    /\ result' = IF r.panic THEN "Fatal" ELSE "Ok"
    /\ op' = name
    /\ prevOp' = op
    /\ pre' = Snapshot
    /\ marked' = marks
    /\ UNCHANGED <<globals, global_name_map, field_to_id_map, functions, stack,
                   ip, interner, gc_metrics, module, events, inst, needs_gc,
                   output, source>>

HAlloc == HeapCall("alloc", HeapAlloc(heap), marked)

HAllocExtern ==
    \E ty \in HeapExternTypes : HeapCall("alloc_extern", HeapAllocExtern(heap, ty), marked)

HFree ==
    \E addr \in 0..HeapSlots :
        LET r == HeapFree(heap, addr)
        IN  HeapCall("free", [heap |-> r.heap, ret |-> addr, panic |-> r.panic], marked)

HTakeExtern ==
    \E addr \in 0..HeapSlots : HeapCall("take_extern", HeapTakeExtern(heap, addr), marked)

HTryTakeExtern ==
    \E addr \in 0..HeapSlots :
        HeapCall("try_take_extern", HeapTryTakeExtern(heap, addr), marked)

HSweep == \E marks \in MarkVectors : HeapCall("sweep", HeapSweep(heap, marks), marks)

HSetField ==
    \E addr \in DOMAIN heap.objects, index \in HeapFieldIds, value \in HeapFieldValues :
        /\ HeapGet(heap, addr).some
        /\ HeapCall("set_field",
                    [heap |-> HeapSetField(heap, addr, index, value), ret |-> addr,
                     panic |-> FALSE], marked)

HeapNext ==
    HAlloc \/ HAllocExtern \/ HFree \/ HTakeExtern \/ HTryTakeExtern \/ HSweep
        \/ HSetField

HeapSpec == HeapInit /\ [][HeapNext]_vars


(***************************************************************************)
(* Instruction (vm.rs 11-69): a is the first operand (index, args, addr),  *)
(* b the second (Invoke's sym).                                            *)
(***************************************************************************)
Load(index) == [i |-> "Load", a |-> index, b |-> 0]
Store(index) == [i |-> "Store", a |-> index, b |-> 0]
IndexGet(index) == [i |-> "IndexGet", a |-> index, b |-> 0]
IndexSet(index) == [i |-> "IndexSet", a |-> index, b |-> 0]
LoadNil == [i |-> "LoadNil", a |-> 0, b |-> 0]
LoadTrue == [i |-> "LoadTrue", a |-> 0, b |-> 0]
LoadFalse == [i |-> "LoadFalse", a |-> 0, b |-> 0]
LoadConst(index) == [i |-> "LoadConst", a |-> index, b |-> 0]
LoadString(index) == [i |-> "LoadString", a |-> index, b |-> 0]
Alloc == [i |-> "Alloc", a |-> 0, b |-> 0]
Call(args) == [i |-> "Call", a |-> args, b |-> 0]
Invoke(args, sym) == [i |-> "Invoke", a |-> args, b |-> sym]
Jmp(addr) == [i |-> "Jmp", a |-> addr, b |-> 0]
JmpIfFalse(addr) == [i |-> "JmpIfFalse", a |-> addr, b |-> 0]
Pop == [i |-> "Pop", a |-> 0, b |-> 0]

(***************************************************************************)
(* Interner::intern: the index of the string when present, else it is      *)
(* appended.                                                               *)
(***************************************************************************)
Position(strings, string) ==
    IF \E n \in 1..Len(strings) : strings[n] = string
    THEN (CHOOSE n \in 1..Len(strings) :
              /\ strings[n] = string
              /\ \A m \in 1..(n - 1) : strings[m] # string) - 1
    ELSE None

\* intern without the position lookup: the string is always pushed.
InternAlwaysPushes(strings, string) ==
    [strings |-> Append(strings, string), idx |-> Len(strings)]

Intern(strings, string) ==
    IF Position(strings, string) # None
    THEN [strings |-> strings, idx |-> Position(strings, string)]
    ELSE [strings |-> Append(strings, string), idx |-> Len(strings)]

\* Interner::get (vm.rs 243-246)
InternerGet(strings, addr) == At(strings, addr)

\* FunctionArgs::field_id and Runtime::get_field_index: the id is the map's
\* size when the name is new.
FieldId(map, name) ==
    IF name \in DOMAIN map
    THEN [map |-> map, id |-> map[name]]
    ELSE [map |-> MapInsert(map, name, Cardinality(DOMAIN map)),
          id |-> Cardinality(DOMAIN map)]

(***************************************************************************)
(* Native functions.  A native gets FunctionArgs (vm.rs 192-200): ctx =    *)
(* [stack, heap, strings, field_to_id_map, events, out], where events is   *)
(* the SDL event queue its EventPump reads and out is stdout.  It answers  *)
(* the context as it left it, the value returned, the needs_gc flag, and   *)
(* whether it panicked.                                                    *)
(***************************************************************************)
NRet(ctx, res) == [ctx |-> ctx, res |-> res, needs_gc |-> FALSE, panic |-> FALSE]
NPanic(ctx) == [ctx |-> ctx, res |-> Nil, needs_gc |-> FALSE, panic |-> TRUE]
NPop(ctx) == [ctx EXCEPT !.stack = PopVec(ctx.stack)]

\* The line println! writes for a value: the variant, its payload, and for a
\* String the text the interner holds for it.
Printed(value, strings) ==
    [t |-> value.t, v |-> value.v,
     s |-> IF value.t = "String" THEN At(strings, value.v) ELSE ""]

\* main.rs 23-43.  Value::ExternObject has no arm in the match.
NativePrint(ctx) ==
    IF Len(ctx.stack) = 0 THEN NPanic(ctx)
    ELSE LET value == Last(ctx.stack)
             c == NPop(ctx)
         IN  IF value.t = "ExternObject" THEN NPanic(c)
             ELSE IF value.t = "Object"
                     /\ (value.v \notin DOMAIN c.heap.objects \/ HeapGet(c.heap, value.v).panic)
                  THEN NPanic(c)
             ELSE IF value.t = "String" /\ value.v >= Len(c.strings) THEN NPanic(c)
             ELSE NRet([c EXCEPT !.out = Append(c.out, Printed(value, c.strings))], Nil)

\* main.rs 57-62: todo!() when the heap has no slot.
NativeAlloc(ctx) ==
    LET r == HeapAlloc(ctx.heap)
    IN  IF r.panic \/ r.ret = None THEN NPanic(ctx)
        ELSE NRet([ctx EXCEPT !.heap = r.heap], Object(r.ret))

\* sdl.rs 7-20: expect() on the allocation.
NativeInitSdl(ctx) ==
    LET r == HeapAllocExtern(ctx.heap, "Sdl")
    IN  IF r.panic \/ r.ret = None THEN NPanic(ctx)
        ELSE NRet([ctx EXCEPT !.heap = r.heap], ExternObject(r.ret))

\* The extern borrowed by a native: get_extern(addr).unwrap() and
\* try_borrow::<T>().unwrap() both succeed.
BorrowsExtern(h, value, ty) ==
    /\ value.t = "ExternObject"
    /\ value.v \in DOMAIN h.objects
    /\ HeapGetExtern(h, value.v).some
    /\ HeapGetExtern(h, value.v).ty = ty

\* sdl.rs 85-97
NativeCreateEventPump(ctx) ==
    IF Len(ctx.stack) = 0 THEN NPanic(ctx)
    ELSE LET value == Last(ctx.stack)
             c == NPop(ctx)
             r == HeapAllocExtern(c.heap, "EventPump")
         IN  IF ~BorrowsExtern(c.heap, value, "Sdl") THEN NPanic(c)
             ELSE IF r.panic \/ r.ret = None THEN NPanic(c)
             ELSE NRet([c EXCEPT !.heap = r.heap], ExternObject(r.ret))

(***************************************************************************)
(* sdl.rs 100-143.  event_pump.poll_event() takes the head of the SDL      *)
(* queue.  A KeyUp event becomes an object {kind, keycode}; when the heap  *)
(* has no slot for it the argument is pushed back and needs_gc is set.     *)
(***************************************************************************)
KeyUpObject(c, object_addr, keycode) ==
    LET kind_id == FieldId(c.field_to_id_map, "kind")
        kind_value == Intern(c.strings, "keyup")
        keycode_id == FieldId(kind_id.map, "keycode")
        keycode_value == Intern(kind_value.strings, keycode)
        h1 == HeapSetField(c.heap, object_addr, kind_id.id, String(kind_value.idx))
        h2 == HeapSetField(h1, object_addr, keycode_id.id, String(keycode_value.idx))
    IN  [c EXCEPT !.heap = h2, !.strings = keycode_value.strings,
                  !.field_to_id_map = keycode_id.map]

\* The out-of-memory branch without the push that restores the stack.
PollEventOutOfMemoryNoRestore(c, value) ==
    [ctx |-> c, res |-> Nil, needs_gc |-> TRUE, panic |-> FALSE]

PollEventOutOfMemory(c, value) ==
    [ctx |-> [c EXCEPT !.stack = Push(c.stack, value)], res |-> Nil,
     needs_gc |-> TRUE, panic |-> FALSE]

NativePollEvent(ctx) ==
    IF Len(ctx.stack) = 0 THEN NPanic(ctx)
    ELSE LET value == Last(ctx.stack)
             c0 == NPop(ctx)
         IN  IF ~BorrowsExtern(c0.heap, value, "EventPump") THEN NPanic(c0)
             ELSE IF Len(c0.events) = 0 THEN NRet(c0, Nil)
             ELSE LET event == Head(c0.events)
                      c == [c0 EXCEPT !.events = Tail(c0.events)]
                      r == HeapAlloc(c.heap)
                  IN  IF event.kind # "KeyUp" THEN NRet(c, Nil)
                      ELSE IF r.panic THEN NPanic(c)
                      ELSE IF r.ret = None THEN PollEventOutOfMemory(c, value)
                      ELSE IF event.keycode = "" THEN NPanic([c EXCEPT !.heap = r.heap])
                      ELSE NRet(KeyUpObject([c EXCEPT !.heap = r.heap], r.ret,
                                            event.keycode),
                                Object(r.ret))

\* The text of a number (f64::to_string) and of two strings joined
\* (String::push_str), for the numbers and strings the model's sources hold.
NumberText(n) ==
    <<"0", "1", "2", "3", "4", "5", "6", "7", "8", "9", "10", "11", "12", "13",
      "14", "15", "16", "17", "18", "19", "20">>[n + 1]
PushStr(str_a, str_b) ==
    IF str_b = "" THEN str_a
    ELSE IF str_a = "" THEN str_b
    ELSE ((<<"hi", "a">> :> "hia") @@ (<<"a", "hi">> :> "ahi") @@ (<<"hi", "hi">> :> "hihi")
          @@ (<<"a", "a">> :> "aa") @@ (<<"hi", "1">> :> "hi1") @@ (<<"a", "1">> :> "a1")
         )[<<str_a, str_b>>]

\* main.rs 64-87
NativeAdd(ctx) ==
    IF Len(ctx.stack) < 2 THEN NPanic(ctx)
    ELSE LET b == Last(ctx.stack)
             a == Last(PopVec(ctx.stack))
             c == NPop(NPop(ctx))
             new_str == PushStr(At(c.strings, a.v),
                                IF b.t = "String" THEN At(c.strings, b.v)
                                ELSE NumberText(b.v))
             new_addr == Intern(c.strings, new_str)
         IN  IF a.t = "Number" /\ b.t = "Number" THEN NRet(c, Number(a.v + b.v))
             ELSE IF a.t = "String" /\ b.t \in {"String", "Number"}
                  THEN IF a.v >= Len(c.strings) \/ (b.t = "String" /\ b.v >= Len(c.strings))
                       THEN NPanic(c)
                       ELSE NRet([c EXCEPT !.strings = new_addr.strings],
                                 String(new_addr.idx))
             ELSE NPanic(c)

\* main.rs 105-124, cmp_op_func!("lt" => <)
NativeLt(ctx) ==
    IF Len(ctx.stack) < 2 THEN NPanic(ctx)
    ELSE LET b == Last(ctx.stack)
             a == Last(PopVec(ctx.stack))
             c == NPop(NPop(ctx))
         IN  IF a.t = "Number" /\ b.t = "Number" THEN NRet(c, Bool(a.v < b.v))
             ELSE NPanic(c)

\* (def.func)(func_args): the behaviour registered under the name.
NativeCall(name, ctx) ==
    CASE name = "print" -> NativePrint(ctx)
      [] name = "add" -> NativeAdd(ctx)
      [] name = "lt" -> NativeLt(ctx)
      [] name = "alloc" -> NativeAlloc(ctx)
      [] name = "init_sdl" -> NativeInitSdl(ctx)
      [] name = "create_event_pump" -> NativeCreateEventPump(ctx)
      [] name = "poll_event" -> NativePollEvent(ctx)

\* The natives registered before a run, in registration order (their
\* FunctionPtr and global index): main.rs 23, 57; sdl.rs 7, 85, 100.
Natives ==
    << [name |-> "print", args |-> 1], [name |-> "alloc", args |-> 0],
       [name |-> "init_sdl", args |-> 0], [name |-> "create_event_pump", args |-> 1],
       [name |-> "poll_event", args |-> 1] >>

\* The natives main registers for the REPL (main.rs 23, 57, 64, 120), in
\* registration order.
MainNatives ==
    << [name |-> "print", args |-> 1], [name |-> "alloc", args |-> 0],
       [name |-> "add", args |-> 2], [name |-> "lt", args |-> 2] >>


(***************************************************************************)
(* Vm::step (vm.rs 642-786).  rt is the Runtime after the fetch, with ip   *)
(* already advanced past the instruction.  Each Exec operator is one arm   *)
(* of the match: it answers the Runtime the arm leaves, the ControlFlow    *)
(* returned ("Fatal" for a panic) and the needs_gc flag of a Call.         *)
(***************************************************************************)
Flow(rt, flow) == [rt |-> rt, flow |-> flow, needs_gc |-> FALSE]

\* usize::saturating_add_signed (the upper end, usize::MAX, is out of reach).
SaturatingAddSigned(x, d) == IF x + d < 0 THEN 0 ELSE x + d

\* vm.rs 650-653
ExecLoad(rt, index) ==
    IF index >= Len(rt.globals) THEN Flow(rt, "Fatal")
    ELSE Flow([rt EXCEPT !.stack = Push(rt.stack, At(rt.globals, index))], "Continue")

\* vm.rs 654-657
ExecStore(rt, index) ==
    IF Len(rt.stack) = 0 THEN Flow(rt, "Fatal")
    ELSE LET new_value == Last(rt.stack)
             r == [rt EXCEPT !.stack = PopVec(rt.stack)]
         IN  IF index >= Len(r.globals) THEN Flow(r, "Fatal")
             ELSE Flow([r EXCEPT !.globals[index + 1] = new_value], "Continue")

\* vm.rs 658-670
ExecIndexGet(rt, index) ==
    IF Len(rt.stack) = 0 THEN Flow(rt, "Fatal")
    ELSE LET value == Last(rt.stack)
             r == [rt EXCEPT !.stack = PopVec(rt.stack)]
         IN  IF value.t # "Object" THEN Flow(r, "Fatal")
             ELSE IF value.v \notin DOMAIN r.heap.objects THEN Flow(r, "Fatal")
             ELSE LET obj == HeapGet(r.heap, value.v)
                  IN  IF obj.panic \/ ~obj.some THEN Flow(r, "Fatal")
                      ELSE Flow([r EXCEPT !.stack = Push(r.stack, MapGetOrNil(obj.data, index))],
                                "Continue")

\* vm.rs 671-683
ExecIndexSet(rt, index) ==
    IF Len(rt.stack) = 0 THEN Flow(rt, "Fatal")
    ELSE LET new_value == Last(rt.stack)
             r1 == [rt EXCEPT !.stack = PopVec(rt.stack)]
         IN  IF Len(r1.stack) = 0 THEN Flow(r1, "Fatal")
             ELSE LET value == Last(r1.stack)
                      r == [r1 EXCEPT !.stack = PopVec(r1.stack)]
                  IN  IF value.t # "Object" THEN Flow(r, "Fatal")
                      ELSE IF value.v \notin DOMAIN r.heap.objects THEN Flow(r, "Fatal")
                      ELSE LET obj == HeapGet(r.heap, value.v)
                           IN  IF obj.panic \/ ~obj.some THEN Flow(r, "Fatal")
                               ELSE Flow([r EXCEPT !.heap = HeapSetField(r.heap, value.v,
                                                                        index, new_value)],
                                         "Continue")

\* vm.rs 684-699
ExecLoadNil(rt) == Flow([rt EXCEPT !.stack = Push(rt.stack, Nil)], "Continue")
ExecLoadTrue(rt) == Flow([rt EXCEPT !.stack = Push(rt.stack, Bool(TRUE))], "Continue")
ExecLoadFalse(rt) == Flow([rt EXCEPT !.stack = Push(rt.stack, Bool(FALSE))], "Continue")

ExecLoadConst(rt, index, constants) ==
    IF index >= Len(constants) THEN Flow(rt, "Fatal")
    ELSE Flow([rt EXCEPT !.stack = Push(rt.stack, Number(At(constants, index)))], "Continue")

ExecLoadString(rt, index) ==
    Flow([rt EXCEPT !.stack = Push(rt.stack, String(index))], "Continue")

\* The None arm without the rewind of ip.
ExecAllocNoRewind(rt) ==
    LET r == HeapAlloc(rt.heap)
    IN  IF r.panic THEN Flow(rt, "Fatal")
        ELSE IF r.ret # None
             THEN Flow([rt EXCEPT !.heap = r.heap, !.stack = Push(rt.stack, Object(r.ret))],
                       "Continue")
             ELSE Flow(rt, "RequestGC")

\* vm.rs 700-709
ExecAlloc(rt) ==
    LET r == HeapAlloc(rt.heap)
    IN  IF r.panic THEN Flow(rt, "Fatal")
        ELSE IF r.ret # None
             THEN Flow([rt EXCEPT !.heap = r.heap, !.stack = Push(rt.stack, Object(r.ret))],
                       "Continue")
             ELSE Flow([rt EXCEPT !.ip = rt.ip - 1], "RequestGC")

\* Call without the truncate of vm.rs 751: the callee stays under the result.
ExecCallKeepsCallee(rt, args, funcs) ==
    IF Len(rt.stack) < args + 1 THEN Flow(rt, "Fatal")
    ELSE LET func_offset == Len(rt.stack) - (args + 1)
             func_ptr == At(rt.stack, func_offset)
         IN  IF func_ptr.t # "FunctionPtr" THEN Flow(rt, "Fatal")
             ELSE IF func_ptr.v >= Len(funcs) THEN Flow(rt, "Fatal")
             ELSE LET def == At(funcs, func_ptr.v)
                      res == NativeCall(def.name,
                                 [stack |-> rt.stack, heap |-> rt.heap,
                                  strings |-> rt.interner,
                                  field_to_id_map |-> rt.field_to_id_map,
                                  events |-> rt.events, out |-> rt.out])
                      r == [rt EXCEPT !.stack = res.ctx.stack, !.heap = res.ctx.heap,
                                      !.interner = res.ctx.strings,
                                      !.field_to_id_map = res.ctx.field_to_id_map,
                                      !.events = res.ctx.events, !.out = res.ctx.out]
                  IN  IF def.args # args THEN Flow(rt, "Fatal")
                      ELSE IF res.panic THEN Flow(r, "Fatal")
                      ELSE IF res.needs_gc
                           THEN [rt |-> [r EXCEPT !.ip = r.ip - 1], flow |-> "RequestGC",
                                 needs_gc |-> TRUE]
                           ELSE Flow([r EXCEPT !.stack = Push(r.stack, res.res)],
                                     "Continue")

\* Call with the check of vm.rs 728-737 made after the native has run.
ExecCallChecksArityLate(rt, args, funcs) ==
    IF Len(rt.stack) < args + 1 THEN Flow(rt, "Fatal")
    ELSE LET func_offset == Len(rt.stack) - (args + 1)
             func_ptr == At(rt.stack, func_offset)
         IN  IF func_ptr.t # "FunctionPtr" THEN Flow(rt, "Fatal")
             ELSE IF func_ptr.v >= Len(funcs) THEN Flow(rt, "Fatal")
             ELSE LET def == At(funcs, func_ptr.v)
                      res == NativeCall(def.name,
                                 [stack |-> rt.stack, heap |-> rt.heap,
                                  strings |-> rt.interner,
                                  field_to_id_map |-> rt.field_to_id_map,
                                  events |-> rt.events, out |-> rt.out])
                      r == [rt EXCEPT !.stack = res.ctx.stack, !.heap = res.ctx.heap,
                                      !.interner = res.ctx.strings,
                                      !.field_to_id_map = res.ctx.field_to_id_map,
                                      !.events = res.ctx.events, !.out = res.ctx.out]
                  IN  IF def.args # args THEN Flow(r, "Fatal")
                      ELSE IF res.panic THEN Flow(r, "Fatal")
                      ELSE IF res.needs_gc
                           THEN [rt |-> [r EXCEPT !.ip = r.ip - 1], flow |-> "RequestGC",
                                 needs_gc |-> TRUE]
                           ELSE Flow([r EXCEPT !.stack = Push(Truncate(r.stack, func_offset),
                                                              res.res)],
                                     "Continue")

\* vm.rs 710-756
ExecCall(rt, args, funcs) ==
    IF Len(rt.stack) < args + 1 THEN Flow(rt, "Fatal")
    ELSE LET func_offset == Len(rt.stack) - (args + 1)
             func_ptr == At(rt.stack, func_offset)
         IN  IF func_ptr.t # "FunctionPtr" THEN Flow(rt, "Fatal")
             ELSE IF func_ptr.v >= Len(funcs) THEN Flow(rt, "Fatal")
             ELSE LET def == At(funcs, func_ptr.v)
                      res == NativeCall(def.name,
                                 [stack |-> rt.stack, heap |-> rt.heap,
                                  strings |-> rt.interner,
                                  field_to_id_map |-> rt.field_to_id_map,
                                  events |-> rt.events, out |-> rt.out])
                      r == [rt EXCEPT !.stack = res.ctx.stack, !.heap = res.ctx.heap,
                                      !.interner = res.ctx.strings,
                                      !.field_to_id_map = res.ctx.field_to_id_map,
                                      !.events = res.ctx.events, !.out = res.ctx.out]
                  IN  IF def.args # args THEN Flow(rt, "Fatal")
                      ELSE IF res.panic THEN Flow(r, "Fatal")
                      ELSE IF res.needs_gc
                           THEN [rt |-> [r EXCEPT !.ip = r.ip - 1], flow |-> "RequestGC",
                                 needs_gc |-> TRUE]
                           ELSE Flow([r EXCEPT !.stack = Push(Truncate(r.stack, func_offset),
                                                              res.res)],
                                     "Continue")

\* Invoke taken for an instruction that does nothing.
ExecInvokeReturns(rt) == Flow(rt, "Continue")

\* vm.rs 757-761
ExecInvoke(rt) == Flow(rt, "Fatal")

\* vm.rs 762-764
ExecJmp(rt, addr) == Flow([rt EXCEPT !.ip = SaturatingAddSigned(rt.ip, addr)], "Continue")

\* Number(0.0) taken for falsy as well.
IsFalsyZero(value) == value = Bool(FALSE) \/ value = Nil \/ value = Number(0)

\* The pattern Value::Bool(false) | Value::Nil of vm.rs 768.
IsFalsy(value) == value = Bool(FALSE) \/ value = Nil

\* vm.rs 765-774
ExecJmpIfFalse(rt, addr) ==
    IF Len(rt.stack) = 0 THEN Flow(rt, "Continue")
    ELSE LET value == Last(rt.stack)
             r == [rt EXCEPT !.stack = PopVec(rt.stack)]
         IN  IF IsFalsy(value)
             THEN Flow([r EXCEPT !.ip = SaturatingAddSigned(r.ip, addr)], "Continue")
             ELSE Flow(r, "Continue")

\* vm.rs 775-777: Vec::pop on an empty vector is None, which is dropped.
ExecPop(rt) ==
    Flow([rt EXCEPT !.stack = IF Len(rt.stack) = 0 THEN rt.stack ELSE PopVec(rt.stack)],
         "Continue")

\* Halt answered as an ordinary instruction.
ExecHaltContinues(rt) == Flow(rt, "Continue")

\* vm.rs 778-780
ExecHalt(rt) == Flow(rt, "Halt")


(***************************************************************************)
(* Token (lexer.rs 3-36): kind and data (the lexeme).  The lexemes of the  *)
(* literals the model's sources use, with what the compiler makes of them: *)
(* data.parse::<f64>() for a Number, data[1..len - 1] for a String.        *)
(***************************************************************************)
Token(kind, data) == [kind |-> kind, data |-> data]
\* The token peeked or taken when the iterator is exhausted (None).
NoToken == Token("None", "")

NumberLexemes ==
    <<"0", "1", "2", "3", "4", "5", "6", "7", "8", "9", "10", "11", "12", "13",
      "14", "15", "16", "17", "18", "19", "20">>
StringLexemes == [hi |-> "\"hi\"", a |-> "\"a\"", empty |-> "\"\""]
StringContents == [hi |-> "hi", a |-> "a", empty |-> ""]

\* token.data.parse::<f64>() (compiler.rs 380)
ParseF64(data) == (CHOOSE n \in 1..Len(NumberLexemes) : NumberLexemes[n] = data) - 1
\* &token.data.clone()[1..len - 1] (compiler.rs 374-375)
StripQuotes(data) ==
    StringContents[CHOOSE k \in DOMAIN StringLexemes : StringLexemes[k] = data]

(***************************************************************************)
(* Compiler (compiler.rs 37-44): the token iterator (tokens, with pos the  *)
(* number of tokens taken), code, constants, and the tables of the Runtime *)
(* it borrows.  err is "" until a function returns Err or panics; "Hang"   *)
(* stands for a loop of the compiler that makes no progress.               *)
(***************************************************************************)
NewCompiler(tokens, rt) ==
    [tokens |-> tokens, pos |-> 0, code |-> << >>, constants |-> << >>,
     globals |-> rt.globals, global_name_map |-> rt.global_name_map,
     field_to_id_map |-> rt.field_to_id_map, strings |-> rt.strings, err |-> ""]

\* tokens.peek()
Peek(cs) == IF cs.pos < Len(cs.tokens) THEN cs.tokens[cs.pos + 1] ELSE NoToken
\* tokens.next()
Advance(cs) == IF cs.pos < Len(cs.tokens) THEN [cs EXCEPT !.pos = @ + 1] ELSE cs
Failed(cs, err) == [cs EXCEPT !.err = err]
Emit(cs, instruction) == [cs EXCEPT !.code = Append(@, instruction)]
Patch(cs, at, instruction) == [cs EXCEPT !.code[at + 1] = instruction]

\* compiler.rs 47-57
Consume(cs, expected) ==
    IF Peek(cs) = NoToken THEN Failed(cs, "UnexpectedEOFExpected")
    ELSE IF Peek(cs).kind = expected THEN Advance(cs)
    ELSE Failed(Advance(cs), "UnexpectedTokenExpected")

\* get_global_index without the lookup: the name is bound to a new global.
GetGlobalIndexAlwaysPushes(cs, name) ==
    [cs |-> [cs EXCEPT !.globals = Push(@, Nil),
                       !.global_name_map = MapInsert(@, name, Len(cs.globals))],
     index |-> Len(cs.globals)]

\* Runtime::get_global_index (vm.rs 272-283)
GetGlobalIndex(cs, name) ==
    IF name \in DOMAIN cs.global_name_map
    THEN [cs |-> cs, index |-> cs.global_name_map[name]]
    ELSE [cs |-> [cs EXCEPT !.globals = Push(@, Nil),
                            !.global_name_map = MapInsert(@, name, Len(cs.globals))],
          index |-> Len(cs.globals)]

\* Runtime::get_field_index (vm.rs 324-333)
GetFieldIndex(cs, name) ==
    LET f == FieldId(cs.field_to_id_map, name)
    IN  [cs |-> [cs EXCEPT !.field_to_id_map = f.map], index |-> f.id]

\* The placeholders of the jumps to patch (compiler.rs 102, 138, 173).
DeadAddr == 57005
DeadBob == 233495307

\* The displacements patched in: compiler.rs 118 and 121 (WHILE), 177 and
\* 195 (the conditional jump to the next arm), 221 and 230 (to the END).
\* The jump back taken past the first instruction of the condition.
WhileBackJumpPastStart(start, end) == start - end
WhileBackJump(start, end) == start - end - 1
\* The exit jump landing on the jump back instead of after it.
WhileExitJumpOntoBack(end, jump) == end - jump - 1
\* The exit jump landing one instruction after the one that follows the loop.
WhileExitJumpPastNext(end, jump) == end - jump + 1
WhileExitJump(end, jump) == end - jump
\* The displacement to the next arm taken one short: onto the Jmp that ends
\* the arm before it.
IfArmJumpShort(jump_inst, last_jmp_inst) == jump_inst - last_jmp_inst - 1
IfArmJump(jump_inst, last_jmp_inst) == jump_inst - last_jmp_inst
\* The displacement to the END taken one too far.
IfEndJumpPastEnd(last, jump) == last - jump
IfEndJump(last, jump) == last - jump - 1

(***************************************************************************)
(* The functions of the compiler.  Each takes the compiler and gives the   *)
(* compiler it leaves.  Where a function goes on after a call that may     *)
(* return Err (`?`), the rest of the function is an operator of its own    *)
(* that takes the compiler the call left and returns it as it is when err  *)
(* is set.                                                                 *)
(***************************************************************************)
RECURSIVE CompileMember(_), CompileAtom(_), MemberLoop(_), CompileStatement(_)
RECURSIVE CompileArgs(_, _), ArgsNext(_, _), CompileCall(_), CallArgs(_)
RECURSIVE AtomOf(_, _), AtomStore(_, _), AtomCall(_)
RECURSIVE MemberName(_), MemberSuffix(_, _), MemberSet(_, _), MemberInvoke(_, _)
RECURSIVE CompileWhileStmt(_), WhileCond(_, _), WhileBody(_), WhileBodyNext(_, _)
RECURSIVE CompileIfStmt(_), IfCond(_), IfLoop(_), IfElseIf(_, _, _)
RECURSIVE ExprStatement(_), NextStatement(_)

\* The argument loop of a call (compiler.rs 348-365, 272-289): the members
\* up to the closing parenthesis, counted.
CompileArgs(cs, args) ==
    IF Peek(cs) = NoToken \/ Peek(cs).kind = "RParen" THEN [cs |-> cs, args |-> args]
    ELSE ArgsNext(CompileMember(cs), args + 1)

\* After an argument (compiler.rs 355-363): the optional comma.
ArgsNext(c1, args) ==
    IF c1.err = "" /\ Peek(c1).kind = "Comma"
    THEN CompileArgs(Consume(c1, "Comma"), args)
    ELSE [cs |-> c1, args |-> args]

\* consume(RParen) after the arguments (compiler.rs 367, 291).
CallEnd(a) ==
    IF a.cs.err # "" THEN a ELSE [cs |-> Consume(a.cs, "RParen"), args |-> a.args]

\* The arguments after consume(LParen).
CallArgs(c1) ==
    IF c1.err # "" THEN [cs |-> c1, args |-> 0] ELSE CallEnd(CompileArgs(c1, 0))

\* ( args ) after a callee (compiler.rs 346-367, 270-291): the compiler after
\* the closing parenthesis and the number of arguments.
CompileCall(cs) == CallArgs(Consume(cs, "LParen"))

\* code.push(Call { args }) (compiler.rs 369)
EmitCall(c3) == IF c3.cs.err # "" THEN c3.cs ELSE Emit(c3.cs, Call(c3.args))

\* After Load of an identifier (compiler.rs 339-370): a call when a
\* parenthesis follows.
AtomCall(c2) ==
    IF Peek(c2).kind # "LParen" THEN c2 ELSE EmitCall(CompileCall(c2))

\* name = member, after the member (compiler.rs 328-330).
AtomStore(name, c2) ==
    IF c2.err # "" THEN c2
    ELSE LET g == GetGlobalIndex(c2, name)
         IN  Emit(g.cs, Store(g.index))

\* The match on the token taken (compiler.rs 319-400).
AtomOf(token, c1) ==
    CASE token.kind = "Ident" ->
             IF Peek(c1).kind = "Equal"
             THEN AtomStore(token.data, CompileMember(Consume(c1, "Equal")))
             ELSE LET g == GetGlobalIndex(c1, token.data)
                  IN  AtomCall(Emit(g.cs, Load(g.index)))
      [] token.kind = "String" ->
             LET r == Intern(c1.strings, StripQuotes(token.data))
             IN  Emit([c1 EXCEPT !.strings = r.strings], LoadString(r.idx))
      [] token.kind = "Number" ->
             Emit([c1 EXCEPT !.constants = Push(@, ParseF64(token.data))],
                  LoadConst(Len(c1.constants)))
      [] token.kind = "True" -> Emit(c1, LoadTrue)
      [] token.kind = "False" -> Emit(c1, LoadFalse)
      [] token.kind = "Nil" -> Emit(c1, LoadNil)
      [] token.kind = "Alloc" -> Emit(c1, Alloc)
      [] OTHER -> Failed(c1, "UnexpectedToken")

\* compiler.rs 314-403
CompileAtom(cs) ==
    IF Peek(cs) = NoToken THEN cs ELSE AtomOf(Peek(cs), Advance(cs))

\* .name = member, after the member (compiler.rs 262-263).
MemberSet(name, c3) ==
    IF c3.err # "" THEN c3
    ELSE LET f == GetFieldIndex(c3, name)
         IN  MemberLoop(Emit(f.cs, IndexSet(f.index)))

\* .name(args), after the arguments (compiler.rs 293).
MemberInvoke(sym, c3) ==
    IF c3.cs.err # "" THEN c3.cs ELSE MemberLoop(Emit(c3.cs, Invoke(c3.args, sym)))

\* After .name (compiler.rs 254-302).
MemberSuffix(name, c2) ==
    IF Peek(c2) = NoToken THEN c2
    ELSE IF Peek(c2).kind = "Equal"
    THEN MemberSet(name, CompileMember(Consume(c2, "Equal")))
    ELSE LET f == GetFieldIndex(c2, name)
         IN  IF Peek(c2).kind = "LParen"
             THEN MemberInvoke(f.index, CompileCall(f.cs))
             ELSE MemberLoop(Emit(f.cs, IndexGet(f.index)))

\* After the dot (compiler.rs 244-249, 303-305).
MemberName(c1) ==
    IF Peek(c1) = NoToken THEN Failed(c1, "UnexpectedEOF")
    ELSE IF Peek(c1).kind # "Ident" THEN Failed(Advance(c1), "UnexpectedToken")
    ELSE MemberSuffix(Peek(c1).data, Advance(c1))

\* The suffix loop of compile_member (compiler.rs 240-309).
MemberLoop(cs) ==
    IF Peek(cs).kind # "Dot" THEN cs ELSE MemberName(Advance(cs))

\* compile_member after compile_atom()? (compiler.rs 238).
MemberAfterAtom(c1) == IF c1.err # "" THEN c1 ELSE MemberLoop(c1)

\* compiler.rs 237-312
CompileMember(cs) == MemberAfterAtom(CompileAtom(cs))

\* The body loop of compile_while_stmt (compiler.rs 106-112).  A token that
\* compile_statement leaves where it is (ELSE, ELSEIF) is peeked for ever.
WhileBody(cs) ==
    IF Peek(cs) = NoToken \/ Peek(cs).kind = "End" THEN cs
    ELSE WhileBodyNext(cs.pos, CompileStatement(cs))

WhileBodyNext(pos, c1) ==
    IF c1.err # "" THEN c1
    ELSE IF c1.pos = pos THEN Failed(c1, "Hang")
    ELSE WhileBody(c1)

\* consume(End) and the two jumps (compiler.rs 114-122).
WhileEnd(start, jump, c4) ==
    LET c5 == Consume(c4, "End")
        end == Len(c5.code)
    IN  IF c4.err # "" THEN c4
        ELSE IF c5.err # "" THEN c5
        ELSE Patch(Emit(c5, Jmp(WhileBackJump(start, end))), jump,
                   JmpIfFalse(WhileExitJump(end, jump)))

\* After the condition (compiler.rs 101-112).
WhileCond(start, c2) ==
    LET jump == Len(c2.code)
        c3 == Consume(Emit(c2, JmpIfFalse(DeadAddr)), "Do")
    IN  IF c2.err # "" THEN c2
        ELSE IF c3.err # "" THEN c3
        ELSE WhileEnd(start, jump, WhileBody(c3))

\* compiler.rs 95-125
CompileWhileStmt(cs) ==
    LET c1 == Consume(cs, "While")
    IN  IF c1.err # "" THEN c1 ELSE WhileCond(Len(c1.code), CompileMember(c1))

\* ELSEIF after its condition (compiler.rs 200-204).
IfElseIf(st, jump_inst, c3) ==
    IF c3.err # "" THEN [st EXCEPT !.cs = c3]
    ELSE IfLoop([st EXCEPT !.cs = Consume(Emit(c3, JmpIfFalse(DeadBob)), "Then"),
                           !.jumps = Push(@, jump_inst),
                           !.last_jmp_inst = Len(c3.code)])

\* The arm loop of compile_if_stmt (compiler.rs 166-214).  st is the
\* compiler with the loop's locals last_jmp_inst, has_else, jumps; done is
\* set by the break at END.
IfLoop(st) ==
    LET cs == st.cs
        kind == Peek(cs).kind
        c1 == Consume(cs, kind)
        jump_inst == Len(c1.code)
        c2 == Patch(Emit(c1, Jmp(DeadBob)), st.last_jmp_inst,
                    JmpIfFalse(IfArmJump(jump_inst, st.last_jmp_inst)))
    IN  IF cs.err # "" \/ st.done \/ Peek(cs) = NoToken THEN st
        ELSE IF kind = "Else"
        THEN IfLoop([st EXCEPT !.cs = c2, !.jumps = Push(@, jump_inst),
                               !.has_else = TRUE])
        ELSE IF kind = "ElseIf"
        THEN IfElseIf(st, jump_inst, CompileMember(c2))
        ELSE IF kind = "End"
        THEN [st EXCEPT !.cs = c1, !.done = TRUE]
        ELSE IfLoop([st EXCEPT !.cs = CompileStatement(cs)])

\* The loop over jumps ended after its first round.
PatchJumpsFirstOnly(cs, jumps, last) ==
    IF Len(jumps) = 0 THEN cs
    ELSE Patch(cs, Head(jumps), Jmp(IfEndJump(last, Head(jumps))))

\* The loop `for jump in jumps` (compiler.rs 229-232).
RECURSIVE PatchJumps(_, _, _)
PatchJumps(cs, jumps, last) ==
    IF Len(jumps) = 0 THEN cs
    ELSE PatchJumps(Patch(cs, Head(jumps), Jmp(IfEndJump(last, Head(jumps)))),
                    Tail(jumps), last)

\* After the arm loop (compiler.rs 216-232).
IfEnd(st) ==
    LET last == Len(st.cs.code)
        c4 == IF ~st.has_else
              THEN Patch(st.cs, st.last_jmp_inst,
                         JmpIfFalse(IfEndJump(last, st.last_jmp_inst)))
              ELSE st.cs
    IN  IF st.cs.err # "" THEN st.cs ELSE PatchJumps(c4, st.jumps, last)

\* After the first condition (compiler.rs 135-214).
IfCond(c2) ==
    LET c3 == Consume(c2, "Then")
    IN  IF c2.err # "" THEN c2
        ELSE IF c3.err # "" THEN c3
        ELSE IfEnd(IfLoop([cs |-> Emit(c3, JmpIfFalse(DeadAddr)),
                           last_jmp_inst |-> Len(c3.code), has_else |-> FALSE,
                           jumps |-> << >>, done |-> FALSE]))

\* compiler.rs 127-235
CompileIfStmt(cs) ==
    LET c1 == Consume(cs, "If")
    IN  IF c1.err # "" THEN c1 ELSE IfCond(CompileMember(c1))

\* An expression statement that leaves its value on the stack.
ExprStatementNoPop(c1) ==
    LET c2 == Consume(c1, "Semicolon")
    IN  IF c1.err # "" THEN c1
        ELSE IF c2.err # "" THEN c2
        ELSE CompileStatement(c2)

\* An expression statement after its member (compiler.rs 70-72).
ExprStatement(c1) ==
    LET c2 == Consume(c1, "Semicolon")
    IN  IF c1.err # "" THEN c1
        ELSE IF c2.err # "" THEN c2
        ELSE CompileStatement(Emit(c2, Pop))

\* After compile_if_stmt()? and compile_while_stmt()? (compiler.rs 78-85).
NextStatement(c1) == IF c1.err # "" THEN c1 ELSE CompileStatement(c1)

\* compiler.rs 59-93: statements up to END, ELSE, ELSEIF or the end of the
\* tokens.
CompileStatement(cs) ==
    LET kind == Peek(cs).kind
    IN  IF Peek(cs) = NoToken THEN cs
        ELSE IF kind = "Semicolon" THEN CompileStatement(Advance(cs))
        ELSE IF kind \in {"Nil", "True", "False", "Number", "Ident", "String"}
        THEN ExprStatement(CompileMember(cs))
        ELSE IF kind \in {"End", "Else", "ElseIf"} THEN cs
        ELSE IF kind = "Minus" THEN Failed(cs, "Todo")
        ELSE IF kind = "If" THEN NextStatement(CompileIfStmt(cs))
        ELSE IF kind = "While" THEN NextStatement(CompileWhileStmt(cs))
        ELSE Failed(cs, "UnexpectedToken")

\* The loop of compile (compiler.rs 19-21).
RECURSIVE CompileStatements(_), StatementsNext(_, _)
CompileStatements(cs) ==
    IF Peek(cs) = NoToken THEN cs
    ELSE StatementsNext(cs.pos, CompileStatement(cs))

StatementsNext(pos, c1) ==
    IF c1.err # "" THEN c1
    ELSE IF c1.pos = pos THEN Failed(c1, "Hang")
    ELSE CompileStatements(c1)

\* code.push(Halt) (compiler.rs 23) when no error was returned.
CompileEnd(cs) == IF cs.err # "" THEN cs ELSE Emit(cs, Halt)

\* compile (compiler.rs 9-29): the compiler as it ends.
Compile(tokens, rt) == CompileEnd(CompileStatements(NewCompiler(tokens, rt)))


(***************************************************************************)
(* Sources.  A source is written as the statements of the grammar the      *)
(* compiler accepts (member, expression statement, IF, WHILE), and handed  *)
(* to compile as the tokens lex (lexer.rs 38) makes of its text.           *)
(*   expression [e, name, args]: a literal (name its lexeme), Ident name,  *)
(*     Assign name = args[1], Call name(args), Get args[1].name,           *)
(*     Set args[1].name = args[2], Invoke args[1].name(args[2..])          *)
(*   statement [s, e, arms, has_else, els, body]: Expr e; If with arms     *)
(*     [c, body] and the ELSE body els; While e DO body END                *)
(***************************************************************************)
Lit(kind, lexeme) == [e |-> kind, name |-> lexeme, args |-> << >>]
ENil == Lit("Nil", "nil")
ETrue == Lit("True", "true")
EFalse == Lit("False", "false")
EAlloc == Lit("Alloc", "ALLOC")
ENum(n) == Lit("Number", NumberLexemes[n + 1])
EStr(k) == Lit("String", StringLexemes[k])
EIdent(name) == [e |-> "Ident", name |-> name, args |-> << >>]
EAssign(name, rhs) == [e |-> "Assign", name |-> name, args |-> <<rhs>>]
ECall(name, args) == [e |-> "Call", name |-> name, args |-> args]
\* name(args,): a call with the trailing comma the argument list allows.
ECallComma(name, args) == [e |-> "CallComma", name |-> name, args |-> args]
EGet(obj, field) == [e |-> "Get", name |-> field, args |-> <<obj>>]
ESet(obj, field, rhs) == [e |-> "Set", name |-> field, args |-> <<obj, rhs>>]
EInvoke(obj, field, args) == [e |-> "Invoke", name |-> field, args |-> <<obj>> \o args]

SExpr(e) ==
    [s |-> "Expr", e |-> e, arms |-> << >>, has_else |-> FALSE, els |-> << >>,
     body |-> << >>]
Arm(c, body) == [c |-> c, body |-> body]
SIf(arms, has_else, els) ==
    [s |-> "If", e |-> ENil, arms |-> arms, has_else |-> has_else, els |-> els,
     body |-> << >>]
SWhile(c, body) ==
    [s |-> "While", e |-> c, arms |-> << >>, has_else |-> FALSE, els |-> << >>,
     body |-> body]

RECURSIVE ExprTokens(_), ArgTokens(_, _), ArmTokens(_, _), StmtTokens(_), StmtsTokens(_, _)

\* args := member ( ',' member )*, from the i-th expression of args on.
ArgTokens(args, i) ==
    IF i > Len(args) THEN << >>
    ELSE ExprTokens(args[i])
         \o (IF i < Len(args) THEN <<Token("Comma", ",")>> ELSE << >>)
         \o ArgTokens(args, i + 1)

ExprTokens(x) ==
    CASE x.e = "Ident" -> <<Token("Ident", x.name)>>
      [] x.e = "Assign" ->
             <<Token("Ident", x.name), Token("Equal", "=")>> \o ExprTokens(x.args[1])
      [] x.e = "Call" ->
             <<Token("Ident", x.name), Token("LParen", "(")>> \o ArgTokens(x.args, 1)
             \o <<Token("RParen", ")")>>
      [] x.e = "CallComma" ->
             <<Token("Ident", x.name), Token("LParen", "(")>> \o ArgTokens(x.args, 1)
             \o <<Token("Comma", ","), Token("RParen", ")")>>
      [] x.e = "Get" ->
             ExprTokens(x.args[1]) \o <<Token("Dot", "."), Token("Ident", x.name)>>
      [] x.e = "Set" ->
             ExprTokens(x.args[1])
             \o <<Token("Dot", "."), Token("Ident", x.name), Token("Equal", "=")>>
             \o ExprTokens(x.args[2])
      [] x.e = "Invoke" ->
             ExprTokens(x.args[1])
             \o <<Token("Dot", "."), Token("Ident", x.name), Token("LParen", "(")>>
             \o ArgTokens(x.args, 2) \o <<Token("RParen", ")")>>
      [] OTHER -> <<Token(x.e, x.name)>>

\* IF c THEN body for the first arm, ELSEIF c THEN body for the others.
ArmTokens(arms, i) ==
    IF i > Len(arms) THEN << >>
    ELSE <<IF i = 1 THEN Token("If", "IF") ELSE Token("ElseIf", "ELSEIF")>>
         \o ExprTokens(arms[i].c) \o <<Token("Then", "THEN")>>
         \o StmtsTokens(arms[i].body, 1) \o ArmTokens(arms, i + 1)

StmtTokens(st) ==
    CASE st.s = "Expr" -> ExprTokens(st.e) \o <<Token("Semicolon", ";")>>
      [] st.s = "If" ->
             ArmTokens(st.arms, 1)
             \o (IF st.has_else
                 THEN <<Token("Else", "ELSE")>> \o StmtsTokens(st.els, 1)
                 ELSE << >>)
             \o <<Token("End", "END")>>
      [] st.s = "While" ->
             <<Token("While", "WHILE")>> \o ExprTokens(st.e) \o <<Token("Do", "DO")>>
             \o StmtsTokens(st.body, 1) \o <<Token("End", "END")>>

StmtsTokens(stmts, i) ==
    IF i > Len(stmts) THEN << >>
    ELSE StmtTokens(stmts[i]) \o StmtsTokens(stmts, i + 1)

\* lex (lexer.rs 38) of the text of the statements.
Lex(stmts) == StmtsTokens(stmts, 1)


(***************************************************************************)
(* The Modules run, each with what compile (compiler.rs 9-29) left in the  *)
(* Runtime for its source: the globals it created after the natives'       *)
(* (names), the field ids (fields) and the interned strings (strings).     *)
(***************************************************************************)
\* a = ALLOC; b = ALLOC; c = ALLOC;
ProgAlloc3 ==
    [code |-> <<
          Alloc, Store(5), Pop, Alloc, Store(6), Pop, Alloc, Store(7), Pop,
          Halt>>,
     constants |-> <<>>,
     names |-> <<"a", "b", "c">>,
     fields |-> <<>>,
     strings |-> <<>>]

\* o = ALLOC; o.name = "hi"; print(o.name);
ProgField ==
    [code |-> <<
          Alloc, Store(5), Pop, Load(5), LoadString(0), IndexSet(0), Pop,
          Load(0), Load(5), IndexGet(0), Call(1), Pop, Halt>>,
     constants |-> <<>>,
     names |-> <<"o">>,
     fields |-> <<"name">>,
     strings |-> <<"hi">>]

\* IF nil THEN x = 1; END IF false THEN x = 1; END IF true THEN x = 1; END IF 0 THEN x = 1; END IF "" THEN x = 1; END IF print THEN x = 1; END IF ALLOC THEN x = 1; END IF init_sdl() THEN x = 1; ELSE x = 2; END
ProgTruthy ==
    [code |-> <<
          LoadNil, JmpIfFalse(3), LoadConst(0), Store(5), Pop, LoadFalse,
          JmpIfFalse(3), LoadConst(1), Store(5), Pop, LoadTrue,
          JmpIfFalse(3), LoadConst(2), Store(5), Pop, LoadConst(3),
          JmpIfFalse(3), LoadConst(4), Store(5), Pop, LoadString(0),
          JmpIfFalse(3), LoadConst(5), Store(5), Pop, Load(0),
          JmpIfFalse(3), LoadConst(6), Store(5), Pop, Alloc, JmpIfFalse(3),
          LoadConst(7), Store(5), Pop, Load(2), Call(0), JmpIfFalse(4),
          LoadConst(8), Store(5), Pop, Jmp(3), LoadConst(9), Store(5), Pop,
          Halt>>,
     constants |-> <<1, 1, 1, 0, 1, 1, 1, 1, 1, 2>>,
     names |-> <<"x">>,
     fields |-> <<>>,
     strings |-> <<"">>]

\* WHILE true DO a = ALLOC; END
ProgAllocLoop ==
    [code |-> <<
          LoadTrue, JmpIfFalse(4), Alloc, Store(5), Pop, Jmp(0 - 6), Halt>>,
     constants |-> <<>>,
     names |-> <<"a">>,
     fields |-> <<>>,
     strings |-> <<>>]

\* WHILE true DO x = alloc(); END
ProgNativeAlloc ==
    [code |-> <<
          LoadTrue, JmpIfFalse(5), Load(1), Call(0), Store(5), Pop,
          Jmp(0 - 7), Halt>>,
     constants |-> <<>>,
     names |-> <<"x">>,
     fields |-> <<>>,
     strings |-> <<>>]

\* s = init_sdl(); p = create_event_pump(s); WHILE true DO e = poll_event(p); END
ProgEvents ==
    [code |-> <<
          Load(2), Call(0), Store(5), Pop, Load(3), Load(5), Call(1),
          Store(6), Pop, LoadTrue, JmpIfFalse(6), Load(4), Load(6),
          Call(1), Store(7), Pop, Jmp(0 - 8), Halt>>,
     constants |-> <<>>,
     names |-> <<"s", "p", "e">>,
     fields |-> <<>>,
     strings |-> <<>>]

\* o = ALLOC; o.m();
ProgInvoke ==
    [code |-> <<
          Alloc, Store(5), Pop, Load(5), Invoke(0, 0), Pop, Halt>>,
     constants |-> <<>>,
     names |-> <<"o">>,
     fields |-> <<"m">>,
     strings |-> <<>>]

\* d = ALLOC; d.f = 1; d.h = true;
\* WHILE true DO b = ALLOC; b.g = d.f; print(d.k); b = ALLOC; d.f = b; END
ProgFieldLoop ==
    [code |-> <<
          Alloc, Store(5), Pop, Load(5), LoadConst(0), IndexSet(0), Pop,
          Load(5), LoadTrue, IndexSet(1), Pop, LoadTrue, JmpIfFalse(21), Alloc,
          Store(6), Pop, Load(6), Load(5), IndexGet(0), IndexSet(2), Pop,
          Load(0), Load(5), IndexGet(3), Call(1), Pop, Alloc, Store(6), Pop,
          Load(5), Load(6), IndexSet(0), Pop, Jmp(0 - 23), Halt>>,
     constants |-> <<1>>,
     names |-> <<"d", "b">>,
     fields |-> <<"f", "h", "g", "k">>,
     strings |-> <<>>]

Programs ==
    {ProgAlloc3, ProgField, ProgTruthy, ProgAllocLoop, ProgNativeAlloc, ProgEvents,
     ProgInvoke, ProgFieldLoop}

\* The events SDL delivers: a key release with its keycode (Some or None),
\* or an event poll_event ignores.
SdlEvents ==
    {[kind |-> "KeyUp", keycode |-> "A"], [kind |-> "KeyUp", keycode |-> ""],
     [kind |-> "Quit", keycode |-> ""]}

SeqToMap(names, base) ==
    [n \in {names[j] : j \in 1..Len(names)} |->
        base + (CHOOSE j \in 1..Len(names) : names[j] = n) - 1]

(***************************************************************************)
(* Init: Runtime::new() (vm.rs 359-371, with HeapSlots slots), then        *)
(* register_function (vm.rs 335-350) for each of Natives, then compile of  *)
(* one of Programs.                                                        *)
(***************************************************************************)
Init ==
    \E prog \in Programs :
        /\ heap = HeapNew(HeapSlots)
        /\ globals = [j \in 1..(Len(Natives) + Len(prog.names)) |->
                         IF j <= Len(Natives) THEN FunctionPtr(j - 1) ELSE Nil]
        /\ global_name_map =
               SeqToMap([j \in 1..Len(Natives) |-> Natives[j].name] \o prog.names, 0)
        /\ field_to_id_map = SeqToMap(prog.fields, 0)
        /\ functions = Natives
        /\ stack = << >>
        /\ ip = 0
        /\ interner = prog.strings
        /\ gc_metrics = [total_cycles |-> 0, total_garbage_collected |-> 0]
        /\ module = [code |-> prog.code, constants |-> prog.constants]
        /\ events = << >>
        /\ output = << >>
        /\ source = << >>
        /\ op = "new"
        /\ prevOp = "new"
        /\ result = "Continue"
        /\ inst = Halt
        /\ needs_gc = FALSE
        /\ pre = Snapshot
        /\ marked = NoMarks
        /\ ret = None

\* The driver keeps stepping until Halt (main.rs 238-253); a panic ends the run.
Running == result \notin {"Fatal", "Halt"}

\* vm.rs 643-644: the fetch, and ip advanced.
Fetch(name) ==
    /\ Running
    /\ ip < Len(module.code)
    /\ At(module.code, ip).i = name

Fetched ==
    [globals |-> globals, field_to_id_map |-> field_to_id_map, stack |-> stack,
     ip |-> ip + 1, heap |-> heap, interner |-> interner, events |-> events,
     out |-> output]

Operand == At(module.code, ip).a

Commit(out) ==
    /\ globals' = out.rt.globals
    /\ field_to_id_map' = out.rt.field_to_id_map
    /\ stack' = out.rt.stack
    /\ ip' = out.rt.ip
    /\ heap' = out.rt.heap
    /\ interner' = out.rt.interner
    /\ events' = out.rt.events
    /\ output' = out.rt.out
    /\ result' = out.flow
    /\ needs_gc' = out.needs_gc
    /\ inst' = At(module.code, ip)
    /\ op' = "step"
    /\ prevOp' = op
    /\ pre' = Snapshot
    /\ UNCHANGED <<global_name_map, functions, gc_metrics, module, marked, ret,
                   source>>

StepLoad ==
    Fetch("Load") /\ \E out \in {ExecLoad(Fetched, Operand)} : Commit(out)
StepStore ==
    Fetch("Store") /\ \E out \in {ExecStore(Fetched, Operand)} : Commit(out)
StepIndexGet ==
    Fetch("IndexGet") /\ \E out \in {ExecIndexGet(Fetched, Operand)} : Commit(out)
StepIndexSet ==
    Fetch("IndexSet") /\ \E out \in {ExecIndexSet(Fetched, Operand)} : Commit(out)
StepLoadNil ==
    Fetch("LoadNil") /\ \E out \in {ExecLoadNil(Fetched)} : Commit(out)
StepLoadTrue ==
    Fetch("LoadTrue") /\ \E out \in {ExecLoadTrue(Fetched)} : Commit(out)
StepLoadFalse ==
    Fetch("LoadFalse") /\ \E out \in {ExecLoadFalse(Fetched)} : Commit(out)
StepLoadConst ==
    Fetch("LoadConst") /\ \E out \in {ExecLoadConst(Fetched, Operand, module.constants)} : Commit(out)
StepLoadString ==
    Fetch("LoadString") /\ \E out \in {ExecLoadString(Fetched, Operand)} : Commit(out)
StepAlloc ==
    Fetch("Alloc") /\ \E out \in {ExecAlloc(Fetched)} : Commit(out)
StepCall ==
    Fetch("Call") /\ \E out \in {ExecCall(Fetched, Operand, functions)} : Commit(out)
StepInvoke ==
    Fetch("Invoke") /\ \E out \in {ExecInvoke(Fetched)} : Commit(out)
StepJmp ==
    Fetch("Jmp") /\ \E out \in {ExecJmp(Fetched, Operand)} : Commit(out)
StepJmpIfFalse ==
    Fetch("JmpIfFalse") /\ \E out \in {ExecJmpIfFalse(Fetched, Operand)} : Commit(out)
StepPop ==
    Fetch("Pop") /\ \E out \in {ExecPop(Fetched)} : Commit(out)
StepHalt ==
    Fetch("Halt") /\ \E out \in {ExecHalt(Fetched)} : Commit(out)

(***************************************************************************)
(* The collection cycle (gc.rs 281-286): after a RequestGC the user picks  *)
(* the marks and "Finish Cycle" sweeps once, adding the count returned to  *)
(* the metrics.  The driver may also resume without a sweep (the window    *)
(* closed, gc.rs 142-147), which is a plain retry of the step.             *)
(***************************************************************************)
GcSweep ==
    /\ result = "RequestGC"
    /\ op = "step"
    /\ gc_metrics.total_garbage_collected < MaxCollected
    /\ \E marks \in MarkVectors :
           LET r == HeapSweep(heap, marks)
           IN  /\ heap' = r.heap
               /\ ret' = r.ret
               /\ marked' = marks
               /\ gc_metrics' = [gc_metrics EXCEPT
                                    !.total_garbage_collected = @ + r.ret]
    /\ op' = "sweep"
    /\ prevOp' = op
    /\ pre' = Snapshot
    /\ UNCHANGED <<globals, global_name_map, field_to_id_map, functions, stack, ip,
                   interner, module, events, result, inst, needs_gc, output, source>>

\* SDL queues an event once an event pump exists.
SdlEvent ==
    /\ Running
    /\ \E addr \in DOMAIN heap.objects :
           heap.objects[addr].k = "Extern" /\ heap.objects[addr].ty = "EventPump"
    /\ Len(events) < MaxEvents
    /\ \E event \in SdlEvents : events' = Append(events, event)
    /\ UNCHANGED <<heap, globals, global_name_map, field_to_id_map, functions, stack,
                   ip, interner, gc_metrics, module, op, prevOp, result, inst,
                   needs_gc, pre, marked, ret, output, source>>

\* One call of Vm::step.
Step ==
    \/ StepLoad \/ StepStore \/ StepIndexGet \/ StepIndexSet
    \/ StepLoadNil \/ StepLoadTrue \/ StepLoadFalse \/ StepLoadConst \/ StepLoadString
    \/ StepAlloc \/ StepCall \/ StepInvoke
    \/ StepJmp \/ StepJmpIfFalse \/ StepPop \/ StepHalt

Next == Step \/ GcSweep \/ SdlEvent

Spec == Init /\ [][Next]_vars

(***************************************************************************)
(* The host's calls on the Runtime between runs.                           *)
(***************************************************************************)
\* Runtime::set_global (vm.rs 259-271) on the globals and their name map.
\* The lookup that pushes a second slot for a name already bound.
SetGlobalRebinds(gs, names, name, value) ==
    [globals |-> Push(gs, value), names |-> MapInsert(names, name, Len(gs))]

SetGlobal(gs, names, name, value) ==
    IF name \in DOMAIN names
    THEN [globals |-> [gs EXCEPT ![names[name] + 1] = value], names |-> names]
    ELSE [globals |-> Push(gs, value), names |-> MapInsert(names, name, Len(gs))]

\* What a call of the host leaves alone.
HostCall(name) ==
    /\ op' = name
    /\ prevOp' = op
    /\ pre' = Snapshot
    /\ UNCHANGED <<heap, field_to_id_map, stack, ip, interner, gc_metrics, module,
                   events, result, inst, needs_gc, marked, ret, output, source>>

\* Runtime::register_function (vm.rs 335-350)
RegisterFunction(def) ==
    LET index == Len(functions)
        g == SetGlobal(globals, global_name_map, def.name, FunctionPtr(index))
    IN  /\ functions' = Push(functions, def)
        /\ globals' = g.globals
        /\ global_name_map' = g.names
        /\ HostCall("register_function")

\* The Runtime after Runtime::new() (vm.rs 359-371) and register_function
\* for each of defs, in order.
RECURSIVE Registered(_)
Registered(defs) ==
    IF Len(defs) = 0
    THEN [globals |-> << >>, names |-> EmptyMap]
    ELSE LET r == Registered(PopVec(defs))
         IN  SetGlobal(r.globals, r.names, Last(defs).name, FunctionPtr(Len(defs) - 1))

(***************************************************************************)
(* run (main.rs 226-258): compile the source into a Module, step it until  *)
(* Halt, reset.  RunSource is the call of compile; the tables compile      *)
(* wrote stay as they are when it returns an error, and run returns it.    *)
(***************************************************************************)
NoModule == [code |-> << >>, constants |-> << >>]

\* run after compile returned c (main.rs 229): the Module, or the error.
Compiled(src, c) ==
    /\ globals' = c.globals
    /\ global_name_map' = c.global_name_map
    /\ field_to_id_map' = c.field_to_id_map
    /\ interner' = c.strings
    /\ module' = IF c.err = "" THEN [code |-> c.code, constants |-> c.constants]
                 ELSE NoModule
    /\ result' = IF c.err = "" THEN "Continue"
                 ELSE IF c.err = "Todo" THEN "Fatal"
                 ELSE IF c.err = "Hang" THEN "Hang"
                 ELSE "Error"
    /\ source' = Append(source, src)
    /\ op' = "compile"
    /\ prevOp' = op
    /\ pre' = Snapshot
    /\ UNCHANGED <<heap, functions, stack, ip, gc_metrics, events, inst, needs_gc,
                   marked, ret, output>>

RunSource(src) ==
    Compiled(src, Compile(Lex(src), [globals |-> globals,
                                     global_name_map |-> global_name_map,
                                     field_to_id_map |-> field_to_id_map,
                                     strings |-> interner]))

\* A reset that starts the globals afresh as well.
ResetForgetsGlobals ==
    /\ op = "step"
    /\ result = "Halt"
    /\ stack' = << >>
    /\ ip' = 0
    /\ globals' = [j \in DOMAIN globals |-> IF globals[j].t = "FunctionPtr"
                                            THEN globals[j] ELSE Nil]
    /\ op' = "reset"
    /\ prevOp' = op
    /\ pre' = Snapshot
    /\ UNCHANGED <<heap, global_name_map, field_to_id_map, functions, interner,
                   gc_metrics, module, events, result, inst, needs_gc, marked, ret,
                   output, source>>

\* Runtime::reset (vm.rs 352-355), called by run after Halt (main.rs 255).
Reset ==
    /\ op = "step"
    /\ result = "Halt"
    /\ stack' = << >>
    /\ ip' = 0
    /\ op' = "reset"
    /\ prevOp' = op
    /\ pre' = Snapshot
    /\ UNCHANGED <<heap, globals, global_name_map, field_to_id_map, functions, interner,
                   gc_metrics, module, events, result, inst, needs_gc, marked, ret,
                   output, source>>

\* The Runtime main hands to run: Runtime::new() with `defs` registered.
HostInit(defs) ==
    /\ heap = HeapNew(HeapSlots)
    /\ globals = Registered(defs).globals
    /\ global_name_map = Registered(defs).names
    /\ field_to_id_map = EmptyMap
    /\ functions = defs
    /\ stack = << >>
    /\ ip = 0
    /\ interner = << >>
    /\ gc_metrics = [total_cycles |-> 0, total_garbage_collected |-> 0]
    /\ module = NoModule
    /\ events = << >>
    /\ output = << >>
    /\ source = << >>
    /\ op = "new"
    /\ prevOp = "new"
    /\ result = "Ok"
    /\ inst = Halt
    /\ needs_gc = FALSE
    /\ pre = Snapshot
    /\ marked = NoMarks
    /\ ret = None

(***************************************************************************)
(* LangSpec: one run of a source of the IF/WHILE grammar.  The sources are *)
(* nests of IF and WHILE statements up to MaxDepth deep.  Every body       *)
(* prints a number of its own, so that stdout tells which bodies ran and   *)
(* in which order; a loop of k iterations counts in a global of its own.   *)
(***************************************************************************)
\* print(n);
Marker(n) == SExpr(ECall("print", <<ENum(n)>>))
\* The number printed by the j-th body of the statement at nesting level d.
BodyMarker(d, j) == Marker(3 * d + j)
\* The loop counter of the WHILE at nesting level d.
Counter(d) == <<"i1", "i2", "i3", "i4", "i5">>[d]

\* The IF statements nested: the conditions of the arms, whether there is an
\* ELSE, and the body (arm, or ELSE = number of arms + 1) that holds the
\* nested statements.  Falsy conditions are false and nil, truthy ones true,
\* 0 and "".
IfShapes ==
    { [conds |-> <<ETrue>>, has_else |-> FALSE, hole |-> 1],
      [conds |-> <<ENil>>, has_else |-> FALSE, hole |-> 1],
      [conds |-> <<ENum(0)>>, has_else |-> TRUE, hole |-> 1],
      [conds |-> <<EFalse>>, has_else |-> TRUE, hole |-> 2],
      [conds |-> <<ENil, EStr("empty")>>, has_else |-> TRUE, hole |-> 2],
      [conds |-> <<EFalse, ENil>>, has_else |-> TRUE, hole |-> 1],
      [conds |-> <<EFalse, EFalse>>, has_else |-> TRUE, hole |-> 3],
      [conds |-> <<ETrue, ETrue>>, has_else |-> FALSE, hole |-> 2],
      [conds |-> <<EFalse, ENil>>, has_else |-> FALSE, hole |-> 2] }
\* The numbers of iterations of the WHILE statements nested.
Iterations == {0, 1, 2}

\* IF c1 THEN b1 ELSEIF c2 THEN b2 ... ELSE e END with `inner` as the body
\* sh.hole and a marker as every other body.
IfOf(sh, inner, d) ==
    SIf([j \in 1..Len(sh.conds) |->
            Arm(sh.conds[j], IF j = sh.hole THEN inner ELSE <<BodyMarker(d, j)>>)],
        sh.has_else,
        IF ~sh.has_else THEN << >>
        ELSE IF sh.hole = Len(sh.conds) + 1 THEN inner
        ELSE <<BodyMarker(d, Len(sh.conds) + 1)>>)

\* i = 0; WHILE lt(i, k) DO inner i = add(i, 1); END
WhileOf(k, inner, d) ==
    << SExpr(EAssign(Counter(d), ENum(0))),
       SWhile(ECall("lt", <<EIdent(Counter(d)), ENum(k)>>),
              inner \o <<SExpr(EAssign(Counter(d),
                                       ECall("add", <<EIdent(Counter(d)), ENum(1)>>)))>>) >>

\* The statement lists nested exactly d deep.
RECURSIVE Nest(_)
Nest(d) ==
    IF d = 0 THEN {<< >>, <<Marker(1)>>}
    ELSE {<<IfOf(sh, inner, d)>> : sh \in IfShapes, inner \in Nest(d - 1)}
         \cup {WhileOf(k, inner, d) : k \in Iterations, inner \in Nest(d - 1)}

\* A nest, then nothing or one more statement.
NestedSources ==
    {nest \o rest : nest \in UNION {Nest(d) : d \in 1..MaxDepth},
                    rest \in {<< >>, <<Marker(2)>>}}

\* Sources for the other instructions and for the errors of a Call and of a
\* field access.
FeatureSources ==
    { \* x = 1; y = 2; print(x); print(y);
      <<SExpr(EAssign("x", ENum(1))), SExpr(EAssign("y", ENum(2))),
        SExpr(ECall("print", <<EIdent("x")>>)), SExpr(ECall("print", <<EIdent("y")>>))>>,
      \* o = ALLOC; o.name = "hi"; print(o.name); print(o.age);
      <<SExpr(EAssign("o", EAlloc)), SExpr(ESet(EIdent("o"), "name", EStr("hi"))),
        SExpr(ECall("print", <<EGet(EIdent("o"), "name")>>)),
        SExpr(ECall("print", <<EGet(EIdent("o"), "age")>>))>>,
      \* o = alloc(); o.m();
      <<SExpr(EAssign("o", ECall("alloc", << >>))), SExpr(EInvoke(EIdent("o"), "m", << >>))>>,
      \* x = 1; x();
      <<SExpr(EAssign("x", ENum(1))), SExpr(ECall("x", << >>))>>,
      \* print(1, add(1, 2));
      <<SExpr(ECall("print", <<ENum(1), ECall("add", <<ENum(1), ENum(2)>>)>>))>>,
      \* print(add(1));
      <<SExpr(ECall("print", <<ECall("add", <<ENum(1)>>)>>))>>,
      \* print(x.f);
      <<SExpr(ECall("print", <<EGet(EIdent("x"), "f")>>))>>,
      \* s = "a"; s.f = 1;
      <<SExpr(EAssign("s", EStr("a"))), SExpr(ESet(EIdent("s"), "f", ENum(1)))>>,
      \* print.f = true;
      <<SExpr(ESet(EIdent("print"), "f", ETrue))>>,
      \* print(add("hi", "a")); print(lt(2, 1));
      <<SExpr(ECall("print", <<ECall("add", <<EStr("hi"), EStr("a")>>)>>)),
        SExpr(ECall("print", <<ECall("lt", <<ENum(2), ENum(1)>>)>>))>> }

Sources == NestedSources \cup FeatureSources

LangInit == HostInit(MainNatives)

LangRun ==
    /\ op = "new"
    /\ \E src \in Sources : RunSource(src)

LangNext == LangRun \/ Step \/ Reset

LangSpec == LangInit /\ [][LangNext]_vars

(***************************************************************************)
(* ReplSpec: the host registers natives on a Runtime::new(), then runs     *)
(* lines one after the other as main's REPL does (main.rs 201-221).        *)
(***************************************************************************)
Lines ==
    { \* x = 1; y = 2; print(x); print(y);
      <<SExpr(EAssign("x", ENum(1))), SExpr(EAssign("y", ENum(2))),
        SExpr(ECall("print", <<EIdent("x")>>)), SExpr(ECall("print", <<EIdent("y")>>))>>,
      \* IF y THEN print(x); ELSE y = "a"; END
      <<SIf(<<Arm(EIdent("y"), <<SExpr(ECall("print", <<EIdent("x")>>))>>)>>, TRUE,
            <<SExpr(EAssign("y", EStr("a")))>>)>>,
      \* o = ALLOC; o.x = y; x = o.x; WHILE false DO END
      <<SExpr(EAssign("o", EAlloc)), SExpr(ESet(EIdent("o"), "x", EIdent("y"))),
        SExpr(EAssign("x", EGet(EIdent("o"), "x"))), SWhile(EFalse, << >>)>>,
      \* z = nil; o.m(true);
      <<SExpr(EAssign("z", ENil)), SExpr(EInvoke(EIdent("o"), "m", <<ETrue>>))>> }

ReplInit == HostInit(<< >>)

ReplRegister ==
    /\ op \in {"new", "register_function"}
    /\ Len(functions) < MaxFunctions
    /\ \E def \in {MainNatives[j] : j \in 1..Len(MainNatives)} : RegisterFunction(def)

ReplRun ==
    /\ op \in {"new", "register_function", "reset"}
    /\ Len(source) < MaxLines
    /\ \E src \in Lines : RunSource(src)

ReplNext == ReplRegister \/ ReplRun \/ Step \/ Reset

ReplSpec == ReplInit /\ [][ReplNext]_vars



(***************************************************************************)
(*                               Claims                                    *)
(***************************************************************************)

\* The slots that were Object or Extern before the last call and are Free now.
Transitioned == {i \in DOMAIN heap.objects :
                    pre.heap.objects[i].k # "Free" /\ heap.objects[i].k = "Free"}

\* C1: after any sequence of alloc, alloc_extern, free and sweep calls on a
\* heap from Heap::new(n), following next from the free head visits exactly
\* the slots whose variant is Free, each once, and ends at index n.
C1_FreeListIntegrity == WellFormed(heap)

\* C7: after sweep(marks) every unmarked slot is Free and every marked slot
\* is what it was before the call (variant, fields, payload).
C7_SweepFreesExactlyUnmarked ==
    (op = "sweep" /\ result # "Fatal") =>
        \A i \in DOMAIN heap.objects :
            /\ ~marked[i] => heap.objects[i].k = "Free"
            /\ marked[i] => heap.objects[i] = pre.heap.objects[i]

\* A sweep that kept an object with a field and freed an occupied slot.
C7_Witness ==
    /\ op = "sweep"
    /\ \E i, j \in DOMAIN heap.objects :
           /\ marked[i]
           /\ pre.heap.objects[i].k = "Object"
           /\ DOMAIN pre.heap.objects[i].data # {}
           /\ ~marked[j]
           /\ pre.heap.objects[j].k = "Extern"
           /\ heap.objects[j].k = "Free"

\* C8: sweep(marks) returns the number of slots that were Object or Extern
\* before the call and are Free after it.
C8_SweepReturnsTransitions ==
    (op = "sweep" /\ result # "Fatal") => ret = Cardinality(Transitioned)


\* The native a Call of `args` arguments found on the stack `stk`, "" if the
\* callee cell holds no registered function.
Callee(stk, args) ==
    IF Len(stk) < args + 1 THEN ""
    ELSE LET f == At(stk, Len(stk) - (args + 1))
         IN  IF f.t = "FunctionPtr" /\ f.v < Len(functions)
             THEN At(functions, f.v).name ELSE ""

\* The last step was a second attempt at a suspended instruction, with no
\* sweep in between.
Retried(name) ==
    /\ op = "step" /\ prevOp = "step"
    /\ pre.result = "RequestGC" /\ pre.inst.i = name
    /\ inst.i = name

\* C2: when step executes Alloc on an exhausted heap and returns RequestGC,
\* the next step, with no sweep in between, returns RequestGC again for the
\* same instruction, and ip, stack, globals and heap are what they were
\* before the first attempt.
C2_AllocRestartIdempotent ==
    [][(op = "step" /\ result = "RequestGC" /\ inst.i = "Alloc" /\ Step) =>
           /\ result' = "RequestGC"
           /\ inst' = inst
           /\ ip' = pre.ip
           /\ stack' = pre.stack
           /\ globals' = pre.globals
           /\ heap' = pre.heap]_vars

\* A second attempt at a suspended Alloc has been made.
C2_Witness == Retried("Alloc") /\ FreeSlots(heap) = {} /\ Len(stack) = 0

\* C3: when step executes Call and returns RequestGC because the native set
\* needs_gc, the next step, with no collection in between, returns RequestGC
\* again for the same instruction, with the same ip and the same stack.
C3_CallRestartIdempotent ==
    [][(op = "step" /\ result = "RequestGC" /\ inst.i = "Call" /\ needs_gc /\ Step) =>
           /\ result' = "RequestGC"
           /\ inst' = inst
           /\ ip' = ip
           /\ stack' = stack]_vars

\* C4: whenever step returns RequestGC, ip is the index of the instruction
\* that asked for it and the stack is what it was before that instruction
\* was fetched.
C4_SuspensionConsistency ==
    (op = "step" /\ result = "RequestGC") =>
        /\ ip = pre.ip
        /\ At(module.code, ip) = inst
        /\ stack = pre.stack

\* poll_event suspended a Call: the argument it popped is back on the stack.
C4_Witness ==
    /\ op = "step" /\ result = "RequestGC"
    /\ inst.i = "Call" /\ needs_gc
    /\ Callee(stack, inst.a) = "poll_event"
    /\ Last(stack).t = "ExternObject"

\* C5: whenever a step needs a heap slot and none is available (Alloc, or a
\* Call of a native that allocates an object or an extern), step returns
\* RequestGC and the run is not aborted.
C5_ExhaustionNeverFatal ==
    (/\ op = "step"
     /\ FreeSlots(pre.heap) = {}
     /\ \/ inst.i = "Alloc"
        \/ inst.i = "Call" /\ Callee(pre.stack, inst.a) \in {"alloc", "init_sdl"})
    => result = "RequestGC"

\* C6: with the heap full and Alloc suspended, after a sweep that keeps
\* every slot the retried Alloc returns RequestGC again; after a sweep with
\* an unmarked slot it returns Continue and pushes Object(a) for a slot a
\* unmarked in that sweep.
C6_RetryAfterCollection ==
    (op = "step" /\ prevOp = "sweep" /\ inst.i = "Alloc") =>
        IF \A i \in DOMAIN marked : marked[i]
        THEN result = "RequestGC" /\ stack = pre.stack
        ELSE /\ result = "Continue"
             /\ \E a \in DOMAIN marked :
                    /\ ~marked[a]
                    /\ stack = Push(pre.stack, Object(a))
                    /\ heap.objects[a] = HvObject(EmptyMap)

\* The retry succeeded after a sweep that kept one slot and freed another.
C6_Witness ==
    /\ op = "step" /\ prevOp = "sweep" /\ inst.i = "Alloc"
    /\ result = "Continue"
    /\ \E i, j \in DOMAIN marked : marked[i] /\ ~marked[j]
    /\ OccupiedSlots(pre.heap) # {}

\* C9: step returns RequestGC only for Alloc with heap.alloc() failing or
\* for Call with needs_gc set by the native; Halt returns Halt; every other
\* instruction that completes returns Continue.
C9_OnlyTwoSuspensionPoints ==
    op = "step" =>
        /\ result \in {"Continue", "RequestGC", "Halt", "Fatal"}
        /\ result = "RequestGC" =>
               \/ inst.i = "Alloc" /\ pre.heap.next_free >= HeapSize(pre.heap)
               \/ inst.i = "Call" /\ needs_gc
        /\ inst.i = "Halt" <=> result = "Halt"
        /\ (inst.i = "Alloc" /\ pre.heap.next_free >= HeapSize(pre.heap)) =>
               result = "RequestGC"
        /\ (inst.i = "Call" /\ needs_gc) => result = "RequestGC"

\* Both suspension points and Halt have been seen: this one is the Alloc.
C9_Witness ==
    /\ op = "step" /\ result = "RequestGC" /\ inst.i = "Alloc"
    /\ pre.heap.next_free >= HeapSize(pre.heap)

\* C10: JmpIfFalse pops one value v and adds its displacement to ip iff v is
\* Bool(false) or Nil; for every other value ip is left at the instruction
\* after the JmpIfFalse.
C10_TruthinessTotality ==
    (op = "step" /\ inst.i = "JmpIfFalse" /\ Len(pre.stack) > 0) =>
        LET v == Last(pre.stack)
        IN  /\ result = "Continue"
            /\ stack = PopVec(pre.stack)
            /\ ip = IF v.t = "Nil" \/ (v.t = "Bool" /\ v.v = 0)
                    THEN pre.ip + 1 + inst.a
                    ELSE pre.ip + 1

\* Number(0) did not branch although the displacement is not 0.
C10_Witness ==
    /\ op = "step" /\ inst.i = "JmpIfFalse"
    /\ Len(pre.stack) > 0
    /\ Last(pre.stack) = Number(0)
    /\ inst.a # 0
    /\ ip = pre.ip + 1


(***************************************************************************)
(* The compiled Module and its execution (LangSpec, ReplSpec).             *)
(***************************************************************************)
\* The indices j (from 1) of the jumps of the Module compiled.
JumpsOf(code) == {j \in 1..Len(code) : code[j].i \in {"Jmp", "JmpIfFalse"}}

\* C11: in the Module compiled from a source of nested IF and WHILE
\* statements, every Jmp and JmpIfFalse at index j with displacement rel has
\* 0 <= j + 1 + rel < len(code).
C11_JumpPatchingLocality ==
    \A j \in JumpsOf(module.code) :
        /\ 0 <= (j - 1) + 1 + module.code[j].a
        /\ (j - 1) + 1 + module.code[j].a < Len(module.code)

\* A Module with a backward jump, a jump to the last instruction and at
\* least five jumps (a WHILE with an IF of several arms inside, or the
\* reverse), just compiled.
C11_Witness ==
    /\ op = "compile" /\ result = "Continue"
    /\ Cardinality(JumpsOf(module.code)) >= 5
    /\ \E j \in JumpsOf(module.code) : module.code[j].a < 0
    /\ \E j \in JumpsOf(module.code) : j + module.code[j].a = Len(module.code) - 1

(***************************************************************************)
(* What the statements of a source mean, read off the statements           *)
(* themselves: the lines print writes and the values of the globals when   *)
(* the source has run.  A value is written as print shows it (an interned  *)
(* string by its text).  st is [env, out, v, vals, fuel, err]: the         *)
(* globals by name, the lines printed, the value of the expression just    *)
(* evaluated, the arguments evaluated so far, the loop iterations left.    *)
(***************************************************************************)
MaxIterations == 40

Shown(value, strings) ==
    [t |-> value.t, v |-> IF value.t = "String" THEN 0 ELSE value.v,
     s |-> IF value.t = "String" THEN At(strings, value.v) ELSE ""]
ShownNil == Shown(Nil, << >>)
ShownText(text) == [t |-> "String", v |-> 0, s |-> text]
Truthy(shown) == ~(shown.t = "Nil" \/ (shown.t = "Bool" /\ shown.v = 0))

MeaningInit ==
    [env |-> EmptyMap, out |-> << >>, v |-> ShownNil, vals |-> << >>,
     fuel |-> MaxIterations, err |-> FALSE]

RECURSIVE MeaningOfExpr(_, _), MeaningOfArgs(_, _, _), MeaningOfStmts(_, _, _)
RECURSIVE MeaningOfIf(_, _, _), MeaningOfArm(_, _, _), MeaningOfWhile(_, _)
RECURSIVE MeaningOfTest(_, _), MeaningOfStmt(_, _)

\* name = value of the right-hand side.
MeaningOfAssign(name, st) ==
    [st EXCEPT !.env = MapInsert(@, name, st.v), !.v = ShownNil]

\* The natives print, add and lt on the arguments st.vals.
MeaningOfCall(name, vals, st) ==
    LET a == st.vals
        numbers == \A j \in 1..Len(a) : a[j].t = "Number"
    IN  IF st.err THEN st
        ELSE IF name = "print" /\ Len(a) = 1
        THEN [st EXCEPT !.out = Append(@, a[1]), !.v = ShownNil, !.vals = vals]
        ELSE IF name = "add" /\ Len(a) = 2 /\ numbers
        THEN [st EXCEPT !.v = Shown(Number(a[1].v + a[2].v), << >>), !.vals = vals]
        ELSE IF name = "lt" /\ Len(a) = 2 /\ numbers
        THEN [st EXCEPT !.v = Shown(Bool(a[1].v < a[2].v), << >>), !.vals = vals]
        ELSE [st EXCEPT !.err = TRUE]

MeaningOfArg(st) == [st EXCEPT !.vals = Append(@, st.v)]

MeaningOfArgs(args, i, st) ==
    IF i > Len(args) THEN st
    ELSE MeaningOfArgs(args, i + 1, MeaningOfArg(MeaningOfExpr(args[i], st)))

MeaningOfExpr(x, st) ==
    CASE x.e = "Nil" -> [st EXCEPT !.v = ShownNil]
      [] x.e = "True" -> [st EXCEPT !.v = Shown(Bool(TRUE), << >>)]
      [] x.e = "False" -> [st EXCEPT !.v = Shown(Bool(FALSE), << >>)]
      [] x.e = "Number" -> [st EXCEPT !.v = Shown(Number(ParseF64(x.name)), << >>)]
      [] x.e = "String" -> [st EXCEPT !.v = ShownText(StripQuotes(x.name))]
      [] x.e = "Ident" -> [st EXCEPT !.v = MapGetOrNil(st.env, x.name)]
      [] x.e = "Assign" -> MeaningOfAssign(x.name, MeaningOfExpr(x.args[1], st))
      [] x.e = "Call" ->
             MeaningOfCall(x.name, st.vals,
                           MeaningOfArgs(x.args, 1, [st EXCEPT !.vals = << >>]))
      [] OTHER -> [st EXCEPT !.err = TRUE]

\* The body of the first arm from the j-th on whose condition is truthy, the
\* ELSE body when there is none, or nothing.
MeaningOfIf(stmt, j, st) ==
    IF j > Len(stmt.arms)
    THEN IF stmt.has_else THEN MeaningOfStmts(stmt.els, 1, st) ELSE st
    ELSE MeaningOfArm(stmt, j, MeaningOfExpr(stmt.arms[j].c, st))

MeaningOfArm(stmt, j, st) ==
    IF Truthy(st.v) THEN MeaningOfStmts(stmt.arms[j].body, 1, st)
    ELSE MeaningOfIf(stmt, j + 1, st)

\* The condition, then the body and the loop again while it is truthy.
MeaningOfWhile(stmt, st) == MeaningOfTest(stmt, MeaningOfExpr(stmt.e, st))

MeaningOfTest(stmt, st) ==
    IF st.err \/ ~Truthy(st.v) THEN st
    ELSE IF st.fuel = 0 THEN [st EXCEPT !.err = TRUE]
    ELSE MeaningOfWhile(stmt, MeaningOfStmts(stmt.body, 1, [st EXCEPT !.fuel = @ - 1]))

MeaningOfStmt(stmt, st) ==
    CASE stmt.s = "Expr" -> MeaningOfExpr(stmt.e, st)
      [] stmt.s = "If" -> MeaningOfIf(stmt, 1, st)
      [] stmt.s = "While" -> MeaningOfWhile(stmt, st)

MeaningOfStmts(stmts, i, st) ==
    IF i > Len(stmts) \/ st.err THEN st
    ELSE MeaningOfStmts(stmts, i + 1, MeaningOfStmt(stmts[i], st))

Meaning(src) == MeaningOfStmts(src, 1, MeaningInit)

\* The source given to run holds a token of this kind.
Uses(kind) ==
    /\ Len(source) = 1
    /\ \E j \in 1..Len(Lex(source[1])) : Lex(source[1])[j].kind = kind

\* The lines printed are those the statements mean.
PrintedAsMeant(m) ==
    /\ ~m.err
    /\ Len(output) = Len(m.out)
    /\ \A j \in 1..Len(output) :
           output[j] = [m.out[j] EXCEPT !.v = IF m.out[j].t = "String"
                                              THEN output[j].v ELSE @]

\* The globals the statements assign hold the values they mean.
StoredAsMeant(m) ==
    /\ ~m.err
    /\ \A name \in DOMAIN m.env :
           /\ name \in DOMAIN global_name_map
           /\ Shown(At(globals, global_name_map[name]), interner) = m.env[name]

Started == op = "compile" /\ result = "Continue"
Halted == op = "step" /\ result = "Halt"

\* run steps the Module until Halt (main.rs 238-252).
LangLive == LangSpec /\ WF_vars(Step)

\* C12: the code compiled from IF c1 THEN A1 (ELSEIF ci THEN Ai)* (ELSE E)?
\* END runs the body of the first arm whose condition is truthy (E when none
\* is and there is an ELSE, nothing otherwise) and no other body, then goes
\* on with the statement after the IF: a run of a source with IF statements
\* reaches Halt having printed exactly the lines of those bodies, in order.
C12_IfSemantics ==
    (Started /\ Uses("If")) ~> (Halted /\ PrintedAsMeant(Meaning(source[1])))

\* An ELSE body ran after two falsy conditions, inside a loop, and the
\* statement after it was reached.
C12_Witness ==
    /\ Halted /\ Uses("If") /\ Uses("ElseIf") /\ Uses("Else") /\ Uses("While")
    /\ PrintedAsMeant(Meaning(source[1]))
    /\ Len(output) >= 3

\* C13: the code compiled from WHILE c DO body END evaluates c before every
\* iteration, runs body once per truthy evaluation and goes on after the
\* loop at the first falsy one: a run of a source with loops of k iterations
\* reaches Halt having printed the lines of the bodies k times each and
\* with every loop counter at k.
C13_WhileSemantics ==
    (Started /\ Uses("While")) ~>
        (Halted /\ PrintedAsMeant(Meaning(source[1]))
                /\ StoredAsMeant(Meaning(source[1])))

\* A loop of two iterations inside a loop of two iterations: the inner body
\* ran four times.
C13_Witness ==
    /\ Halted /\ Uses("While") /\ ~Uses("If")
    /\ StoredAsMeant(Meaning(source[1]))
    /\ PrintedAsMeant(Meaning(source[1]))
    /\ Len(output) >= 4
    /\ \E name \in DOMAIN Meaning(source[1]).env : Meaning(source[1]).env[name].v = 2

\* The call of the native that a Call found on the stack before the step.
CallFound ==
    /\ op = "step" /\ inst.i = "Call"
    /\ Len(pre.stack) >= inst.a + 1
    /\ At(pre.stack, Len(pre.stack) - inst.a - 1).t = "FunctionPtr"
    /\ At(pre.stack, Len(pre.stack) - inst.a - 1).v < Len(functions)
CallDef == At(functions, At(pre.stack, Len(pre.stack) - inst.a - 1).v)
CallReturn ==
    NativeCall(CallDef.name,
               [stack |-> pre.stack, heap |-> pre.heap, strings |-> pre.interner,
                field_to_id_map |-> pre.field_to_id_map, events |-> pre.events,
                out |-> pre.output])

\* C14: when Call{args} finds FunctionPtr(p) at stack[len - args - 1], the
\* arity matches and the native does not ask for a collection, the stack
\* afterwards is the prefix of length len - args - 1 of the stack before,
\* followed by the value the native returned, and step returns Continue.
C14_CallStackEffect ==
    (CallFound /\ CallDef.args = inst.a /\ ~CallReturn.panic /\ ~CallReturn.needs_gc) =>
        /\ result = "Continue"
        /\ Len(stack) = Len(pre.stack) - inst.a
        /\ \A j \in 1..(Len(pre.stack) - inst.a - 1) : stack[j] = pre.stack[j]
        /\ Last(stack) = CallReturn.res
        /\ ip = pre.ip + 1

\* add(1, 2) as the second argument of another call: its two arguments and
\* its callee gone, the outer callee and first argument still below the sum.
C14_Witness ==
    /\ CallFound /\ inst.a = 2 /\ CallDef.name = "add"
    /\ result = "Continue"
    /\ Len(pre.stack) = 5
    /\ stack = <<pre.stack[1], pre.stack[2], Number(pre.stack[4].v + pre.stack[5].v)>>

\* C15: Call{args} on FunctionPtr(p) with functions[p].arity # args is
\* fatal and the native is not invoked: the stack, the heap, the interner
\* and the field-id map are as before the step, and nothing was printed.
C15_ArityCheck ==
    (CallFound /\ CallDef.args # inst.a) =>
        /\ result = "Fatal"
        /\ stack = pre.stack
        /\ heap = pre.heap
        /\ interner = pre.interner
        /\ field_to_id_map = pre.field_to_id_map
        /\ output = pre.output

\* print(1, add(1, 2)): print, of arity 1, called with two arguments.
C15_Witness ==
    /\ CallFound /\ CallDef.name = "print" /\ CallDef.args = 1 /\ inst.a = 2
    /\ result = "Fatal"
    /\ Len(stack) = 3

\* The value an IndexGet or IndexSet found where the object is expected.
Target ==
    IF inst.i = "IndexGet" THEN Last(pre.stack) ELSE Last(PopVec(pre.stack))
FieldAccess ==
    /\ op = "step"
    /\ \/ inst.i = "IndexGet" /\ Len(pre.stack) >= 1
       \/ inst.i = "IndexSet" /\ Len(pre.stack) >= 2

\* C16: a Call whose callee cell is not a FunctionPtr, an IndexGet or
\* IndexSet whose target is not Object(a), and every Invoke end the run in
\* a fatal error: step returns neither Continue nor RequestGC nor Halt.
C16_TypeErrorsFatal ==
    /\ (op = "step" /\ inst.i = "Invoke") => result = "Fatal"
    /\ (op = "step" /\ inst.i = "Call" /\ Len(pre.stack) >= inst.a + 1
        /\ At(pre.stack, Len(pre.stack) - inst.a - 1).t # "FunctionPtr")
           => result = "Fatal"
    /\ (FieldAccess /\ Target.t # "Object") => result = "Fatal"

\* s = "a"; s.f = 1; the IndexSet found a String.
C16_Witness ==
    /\ FieldAccess /\ inst.i = "IndexSet" /\ Target.t = "String"
    /\ result = "Fatal"

(***************************************************************************)
(* Fields of objects (Spec).                                               *)
(***************************************************************************)
\* The slot an IndexGet or IndexSet went through and what it held.
TargetSlot == pre.heap.objects[Target.v]
ThroughObject ==
    FieldAccess /\ Target.t = "Object" /\ Target.v \in DOMAIN pre.heap.objects

\* C17: IndexGet or IndexSet through Object(a) while slot a holds the Free
\* variant is fatal; no value is pushed and no heap slot is modified.
C17_FreedSlotFatal ==
    (ThroughObject /\ TargetSlot.k = "Free") =>
        /\ result = "Fatal"
        /\ heap = pre.heap
        /\ Len(stack) < Len(pre.stack)
        /\ \A j \in 1..Len(stack) : stack[j] = pre.stack[j]

\* d.f = b after a sweep freed d's slot and b took the other one.
C17_Witness ==
    /\ ThroughObject /\ TargetSlot.k = "Free" /\ inst.i = "IndexSet"
    /\ Last(pre.stack).t = "Object" /\ Last(pre.stack) # Target
    /\ result = "Fatal"

FieldSet == ThroughObject /\ inst.i = "IndexSet" /\ result = "Continue"
FieldGot == ThroughObject /\ inst.i = "IndexGet" /\ result = "Continue"

\* C18: IndexSet{f} writes v into the object at slot a and changes no other
\* field of a and no other slot; IndexGet{f} on Object(a) pushes the value
\* the object holds for f, Nil when f was never written; nothing but an
\* IndexSet on a changes the fields of a while a is an object.  So what
\* IndexSet{f} wrote is what IndexGet{f} pushes until the next IndexSet{f}
\* on a or until a is freed.
C18_FieldRoundTrip ==
    /\ FieldSet =>
           /\ heap.next_free = pre.heap.next_free
           /\ heap.objects[Target.v].k = "Object"
           /\ DOMAIN heap.objects[Target.v].data = DOMAIN TargetSlot.data \cup {inst.a}
           /\ heap.objects[Target.v].data[inst.a] = Last(pre.stack)
           /\ \A g \in DOMAIN TargetSlot.data \ {inst.a} :
                  heap.objects[Target.v].data[g] = TargetSlot.data[g]
           /\ \A b \in DOMAIN heap.objects \ {Target.v} :
                  heap.objects[b] = pre.heap.objects[b]
    /\ FieldGot =>
           /\ heap = pre.heap
           /\ Len(stack) = Len(pre.stack)
           /\ Last(stack) = IF inst.a \in DOMAIN TargetSlot.data
                            THEN TargetSlot.data[inst.a] ELSE Nil
    /\ ~FieldSet =>
           \A a \in DOMAIN heap.objects :
               (pre.heap.objects[a].k = "Object" /\ heap.objects[a].k = "Object")
                   => heap.objects[a].data = pre.heap.objects[a].data

\* b.g = d.f in a later iteration: the IndexGet pushed the object that the
\* d.f = b of the iteration before wrote over the 1, the field h still there.
C18_Witness ==
    /\ FieldGot /\ inst.a = 0
    /\ Last(stack).t = "Object"
    /\ 1 \in DOMAIN TargetSlot.data
    /\ TargetSlot.data[1] = Bool(TRUE)

(***************************************************************************)
(* The Runtime between the runs of the REPL (ReplSpec).                    *)
(***************************************************************************)
\* C19: reset() empties the value stack and sets ip to 0 and leaves the
\* globals, the name-to-index map, the field-id map, the native-function
\* table, the interner, every heap slot and the free head unchanged; the
\* compile of the next run keeps the value of every global there is, and a
\* Load pushes the value its global holds: what one run stored the next run
\* reads back.
C19_ResetFrame ==
    [][/\ op' = "reset" =>
              /\ stack' = << >>
              /\ ip' = 0
              /\ UNCHANGED <<globals, global_name_map, field_to_id_map, functions,
                             interner, heap>>
       /\ op' = "compile" =>
              /\ Len(globals') >= Len(globals)
              /\ \A j \in 1..Len(globals) : globals'[j] = globals[j]
              /\ heap' = heap
       /\ (op' = "step" /\ inst'.i = "Load" /\ result' = "Continue") =>
              stack' = Push(stack, At(globals, inst'.a))]_vars

\* The second line (IF y THEN print(x); ...) loads x, which the first line
\* (x = 1; y = 2; ...) stored: the Load pushes 1 after a reset.
C19_Witness ==
    /\ Len(source) = 2
    /\ \A j \in 1..Len(Lex(source[2]) ) :
           ~(Lex(source[2])[j].data = "x" /\ j < Len(Lex(source[2]))
             /\ Lex(source[2])[j + 1].kind = "Equal")
    /\ op = "step" /\ inst.i = "Load"
    /\ "x" \in DOMAIN global_name_map /\ inst.a = global_name_map["x"]
    /\ Len(stack) > 0 /\ Last(stack) = Number(1)

\* The indices the global-access instructions of a Module use.
GlobalOperands(code) == {code[j].a : j \in {k \in 1..Len(code) : code[k].i \in {"Load", "Store"}}}

\* C20: once get_global_index, set_global or register_function has bound a
\* name to an index, every later one of them, and every compile, uses that
\* index for the name; distinct names have distinct indices; the globals
\* vector never shrinks.
C20_GlobalIndexStability ==
    [][/\ \A name \in DOMAIN global_name_map :
              /\ name \in DOMAIN global_name_map'
              /\ global_name_map'[name] = global_name_map[name]
       /\ \A n1, n2 \in DOMAIN global_name_map' :
              global_name_map'[n1] = global_name_map'[n2] => n1 = n2
       /\ \A name \in DOMAIN global_name_map' : global_name_map'[name] < Len(globals')
       /\ Len(globals') >= Len(globals)
       /\ op' = "compile" =>
              GlobalOperands(module'.code) \subseteq
                  {global_name_map'[name] : name \in DOMAIN global_name_map'}]_vars

\* A native registered twice under one name, then a second line compiled
\* that names only globals the first line bound: no global was added.
C20_Witness ==
    /\ Len(functions) = 2 /\ functions[1].name = functions[2].name
    /\ op = "compile" /\ result = "Continue" /\ Len(source) = 2
    /\ Len(globals) = Len(pre.globals)
    /\ Cardinality(GlobalOperands(module.code)) >= 3

(***************************************************************************)
(* InternSpec: an Interner from Interner::default() under any sequence of  *)
(* intern calls with strings of InternStrings.  ret holds the call: the    *)
(* string given and the id answered.                                       *)
(***************************************************************************)
\* Number of different strings the calls choose from.
MaxStrings == 5
InternStrings == {NumberText(n) : n \in 0..(MaxStrings - 1)}

InternInit ==
    /\ heap = HeapNew(HeapSlots)
    /\ globals = << >>
    /\ global_name_map = EmptyMap
    /\ field_to_id_map = EmptyMap
    /\ functions = << >>
    /\ stack = << >>
    /\ ip = 0
    /\ interner = << >>
    /\ gc_metrics = [total_cycles |-> 0, total_garbage_collected |-> 0]
    /\ module = [code |-> <<Halt>>, constants |-> << >>]
    /\ events = << >>
    /\ output = << >>
    /\ source = << >>
    /\ op = "new"
    /\ prevOp = "new"
    /\ result = "Ok"
    /\ inst = Halt
    /\ needs_gc = FALSE
    /\ pre = Snapshot
    /\ marked = NoMarks
    /\ ret = None

InternCall ==
    \E string \in InternStrings :
        \E r \in {Intern(interner, string)} :
            /\ interner' = r.strings
            /\ ret' = [string |-> string, idx |-> r.idx]
            /\ op' = "intern"
            /\ prevOp' = op
            /\ pre' = Snapshot
            /\ UNCHANGED <<heap, globals, global_name_map, field_to_id_map,
                           functions, stack, ip, gc_metrics, module, events,
                           result, inst, needs_gc, marked, output, source>>

InternNext == InternCall

InternSpec == InternInit /\ [][InternNext]_vars

(***************************************************************************)
(* The interner (InternSpec).                                              *)
(***************************************************************************)
\* C21: after any sequence of intern calls, for any strings a and b,
\* intern(a) followed by intern(b) answer the same id exactly when a = b,
\* get of the id intern answered is the string interned, also after the
\* later call; no two ids of the interner denote one string; and a call
\* leaves every id there was denoting the string it denoted.
C21_InternerDeterminism ==
    /\ [](\A a, b \in InternStrings :
             LET ra == Intern(interner, a)
                 rb == Intern(ra.strings, b)
             IN  /\ (ra.idx = rb.idx) <=> (a = b)
                 /\ InternerGet(ra.strings, ra.idx) = a
                 /\ InternerGet(rb.strings, rb.idx) = b
                 /\ InternerGet(rb.strings, ra.idx) = a)
    /\ [](\A j, k \in 1..Len(interner) : interner[j] = interner[k] => j = k)
    /\ [][op' = "intern" =>
              /\ Len(interner') >= Len(interner)
              /\ \A addr \in 0..(Len(interner) - 1) :
                     InternerGet(interner', addr) = InternerGet(interner, addr)
              /\ ret'.idx < Len(interner')
              /\ InternerGet(interner', ret'.idx) = ret'.string]_vars

\* The first string interned is interned again after two others: the call
\* answers id 0 and pushes nothing.
C21_Witness ==
    /\ op = "intern" /\ Len(interner) >= 3
    /\ ret.idx = 0 /\ ret.string = interner[1]
    /\ pre.interner = interner

(***************************************************************************)
(* CompileSpec: compile (compiler.rs 9) called on the Runtime main makes,  *)
(* once or after an earlier line was compiled, with any token vector of    *)
(* TokenSources: every short vector over the alphabet, the IF chains with  *)
(* ELSE and ELSEIF in any order and with or without their END, and the     *)
(* WHILE statements.  source holds the token vectors compiled.             *)
(***************************************************************************)
\* Length of the token vectors taken in full over the alphabet.
MaxTokens == 3
\* Number of ELSE and ELSEIF boundaries of an IF chain.
MaxArms == 3
\* Number of items in a WHILE body.
MaxBody == 2

Tok ==
    [If |-> Token("If", "IF"), Then |-> Token("Then", "THEN"),
     Else |-> Token("Else", "ELSE"), ElseIf |-> Token("ElseIf", "ELSEIF"),
     End |-> Token("End", "END"), While |-> Token("While", "WHILE"),
     Do |-> Token("Do", "DO"), Semicolon |-> Token("Semicolon", ";"),
     True |-> Token("True", "true"), Ident |-> Token("Ident", "x"),
     Dot |-> Token("Dot", "."), String |-> Token("String", StringLexemes.a),
     Equal |-> Token("Equal", "=")]
TokenAlphabet == {Tok[k] : k \in DOMAIN Tok}

\* Every token vector of at most MaxTokens tokens.
ShortSources == UNION {[1..n -> TokenAlphabet] : n \in 0..MaxTokens}

\* x;
Simple == <<Tok.Ident, Tok.Semicolon>>
Bodies == {<< >>, Simple}
\* ELSE, and ELSEIF true THEN
Boundaries == {<<Tok.Else>>, <<Tok.ElseIf, Tok.True, Tok.Then>>}

\* n boundaries, each with its body.
RECURSIVE ArmsAfter(_)
ArmsAfter(n) ==
    IF n = 0 THEN {<< >>}
    ELSE {b \o body \o rest : b \in Boundaries, body \in Bodies, rest \in ArmsAfter(n - 1)}

\* IF true THEN body (boundary body)* with END or without, then x; or nothing.
IfChains ==
    {<<Tok.If, Tok.True, Tok.Then>> \o body \o arms \o end \o rest :
        body \in Bodies, arms \in UNION {ArmsAfter(n) : n \in 0..MaxArms},
        end \in {<<Tok.End>>, << >>}, rest \in Bodies}

\* The conditions of a WHILE: true, x, x.x
WhileConds == {<<Tok.True>>, <<Tok.Ident>>, <<Tok.Ident, Tok.Dot, Tok.Ident>>}
\* The items of a WHILE body: x; and IF true THEN x; END and a stray ELSE
\* or ELSEIF.
BodyItems ==
    {Simple, <<Tok.If, Tok.True, Tok.Then>> \o Simple \o <<Tok.End>>,
     <<Tok.Else>>, <<Tok.ElseIf>>}
RECURSIVE WhileBodies(_)
WhileBodies(n) ==
    IF n = 0 THEN {<< >>}
    ELSE {<< >>} \cup {item \o rest : item \in BodyItems, rest \in WhileBodies(n - 1)}

\* [x;] WHILE c DO body END [x;], and the same without its END.
Whiles ==
    {first \o <<Tok.While>> \o c \o <<Tok.Do>> \o body \o end \o rest :
        first \in Bodies, c \in WhileConds, body \in WhileBodies(MaxBody),
        end \in {<<Tok.End>>, << >>}, rest \in Bodies}

TokenSources == ShortSources \cup IfChains \cup Whiles

\* The line compiled before: x = "a"; x.x;
EarlierLine ==
    <<Tok.Ident, Tok.Equal, Tok.String, Tok.Semicolon,
      Tok.Ident, Tok.Dot, Tok.Ident, Tok.Semicolon>>

\* compile(tokens, &mut runtime)
CompileTokens(tokens) ==
    Compiled(tokens, Compile(tokens, [globals |-> globals,
                                      global_name_map |-> global_name_map,
                                      field_to_id_map |-> field_to_id_map,
                                      strings |-> interner]))

CompileInit == HostInit(MainNatives)

CompileEarlier ==
    /\ op = "new"
    /\ CompileTokens(EarlierLine)

CompileAny ==
    /\ Len(source) = 0 \/ source = <<EarlierLine>>
    /\ \E tokens \in TokenSources : CompileTokens(tokens)

CompileNext == CompileEarlier \/ CompileAny

CompileSpec == CompileInit /\ [][CompileNext]_vars

(***************************************************************************)
(* The compiler (CompileSpec).                                             *)
(***************************************************************************)
\* C22: a compile that returns an error leaves the value stack, ip and the
\* heap as they were; every global there was keeps its index and its value
\* and every field name its id; the globals added are Nil; the interner
\* keeps every string it held at its id; no Module is returned.
C22_FailedCompileFrame ==
    [][(op' = "compile" /\ result' = "Error") =>
           /\ UNCHANGED <<stack, ip, heap>>
           /\ module' = NoModule
           /\ \A name \in DOMAIN global_name_map :
                  /\ name \in DOMAIN global_name_map'
                  /\ global_name_map'[name] = global_name_map[name]
           /\ Len(globals') >= Len(globals)
           /\ \A j \in 1..Len(globals') :
                  globals'[j] = IF j <= Len(globals) THEN globals[j] ELSE Nil
           /\ \A name \in DOMAIN field_to_id_map :
                  /\ name \in DOMAIN field_to_id_map'
                  /\ field_to_id_map'[name] = field_to_id_map[name]
           /\ Len(interner') >= Len(interner)
           /\ \A j \in 1..Len(interner) : interner'[j] = interner[j]]_vars

\* x . x "a" fails on the String where a Semicolon is expected, after the
\* global x and the field x were added; "a" x fails after "a" was interned.
C22_Witness ==
    /\ op = "compile" /\ result = "Error" /\ Len(source) = 1
    /\ \/ /\ Len(globals) = Len(pre.globals) + 1
          /\ Last(globals) = Nil
          /\ "x" \in DOMAIN field_to_id_map
       \/ /\ Len(interner) = Len(pre.interner) + 1
          /\ Len(globals) = Len(pre.globals)

\* The kinds of the tokens of a vector.
Kinds(tokens) == {tokens[j].kind : j \in 1..Len(tokens)}
\* An IF chain of the grammar: nothing follows its ELSE but the ELSE body.
ElseLast(tokens) ==
    \A j, k \in 1..Len(tokens) :
        (tokens[j].kind = "Else" /\ k > j) => tokens[k].kind \notin {"Else", "ElseIf"}
\* The error compile returns for a token vector ("" when it returns Ok).
ErrorOf(tokens) ==
    Compile(tokens, [globals |-> globals, global_name_map |-> global_name_map,
                     field_to_id_map |-> field_to_id_map, strings |-> interner]).err

\* C23: compile of an IF statement whose arms are followed by the end of
\* the input instead of END, and of a WHILE ... DO ... without END, returns
\* an unexpected end-of-input error and no Module.
C23_MissingEndRejected ==
    (/\ op = "compile"
     /\ "End" \notin Kinds(Last(source))
     /\ \/ Last(source) \in IfChains /\ ElseLast(Last(source))
        \/ Last(source) \in Whiles /\ Kinds(Last(source)) \cap {"Else", "ElseIf"} = {})
    => /\ result = "Error"
       /\ module = NoModule
       /\ ErrorOf(Last(source)) \in {"UnexpectedEOFExpected", "UnexpectedEOF"}

\* The indices of the instructions of a kind in a Module's code.
IndicesOf(code, kind) == {k \in 0..(Len(code) - 1) : At(code, k).i = kind}
Min(set) == CHOOSE k \in set : \A other \in set : k <= other
Max(set) == CHOOSE k \in set : \A other \in set : k >= other
\* The number of tokens before the first token of a kind.
TokensBefore(tokens, kind) ==
    Min({j \in 1..Len(tokens) : tokens[j].kind = kind}) - 1

\* C24: in the Module of [x;] WHILE c DO body END [x;], with start the index
\* of the first instruction of c, j the index of the JmpIfFalse of the
\* WHILE and e the index of its Jmp: j + 1 + rel(JmpIfFalse) = e + 1,
\* e + 1 + rel(Jmp) = start, and rel(Jmp) is negative.  Every x; before the
\* WHILE is two tokens and two instructions, so start is the number of
\* tokens before WHILE; the body holds no WHILE and no ELSE, so the
\* JmpIfFalse is the first of the code and the Jmp the only one.
C24_WhilePatching ==
    (op = "compile" /\ result = "Continue" /\ Last(source) \in Whiles) =>
        LET code == module.code
            start == TokensBefore(Last(source), "While")
            j == Min(IndicesOf(code, "JmpIfFalse"))
            e == Max(IndicesOf(code, "Jmp"))
        IN  /\ Cardinality(IndicesOf(code, "Jmp")) = 1
            /\ At(code, start).i \in {"LoadTrue", "Load"}
            /\ start < j /\ j < e
            /\ \A k \in start..(j - 1) : At(code, k).i \notin {"Jmp", "JmpIfFalse"}
            /\ j + 1 + At(code, j).a = e + 1
            /\ e + 1 + At(code, e).a = start
            /\ At(code, e).a < 0

\* x; WHILE x.x DO IF true THEN x; END x; END x; compiled: the WHILE starts
\* at index 2, its body holds a JmpIfFalse of its own, code follows it.
C24_Witness ==
    /\ op = "compile" /\ result = "Continue" /\ Last(source) \in Whiles
    /\ TokensBefore(Last(source), "While") = 2
    /\ Cardinality(IndicesOf(module.code, "JmpIfFalse")) = 2
    /\ At(module.code, 3).i = "IndexGet"
    /\ Max(IndicesOf(module.code, "Jmp")) < Len(module.code) - 3

\* The number of tokens of a kind in a vector.
CountOf(tokens, kind) == Cardinality({j \in 1..Len(tokens) : tokens[j].kind = kind})
\* The index of the first instruction after the IF chain of a vector of
\* IfChains: what follows its END is x; or nothing, two tokens and two
\* instructions, and the Halt.
AfterIf(tokens, code) ==
    Len(code) - 1 - (Len(tokens) - Max({j \in 1..Len(tokens) : tokens[j].kind = "End"}))
\* The Jmp instructions after index j.
JmpsAfter(code, j) == {k \in IndicesOf(code, "Jmp") : k > j}

\* C25: in the Module of an IF chain of the grammar (ELSEIF arms, then at
\* most one ELSE, then END) there is one Jmp for every ELSEIF and ELSE and
\* one JmpIfFalse for the IF and for every ELSEIF; every Jmp targets the
\* first instruction after the whole IF statement; every JmpIfFalse that a
\* boundary follows targets the instruction after that boundary's Jmp (the
\* next condition, or the ELSE body); without an ELSE the last JmpIfFalse
\* targets the first instruction after the whole IF statement.
C25_IfPatching ==
    (/\ op = "compile" /\ result = "Continue"
     /\ Last(source) \in IfChains
     /\ "End" \in Kinds(Last(source))
     /\ ElseLast(Last(source))) =>
        LET tokens == Last(source)
            code == module.code
            after == AfterIf(tokens, code)
        IN  /\ Cardinality(IndicesOf(code, "Jmp"))
                   = CountOf(tokens, "Else") + CountOf(tokens, "ElseIf")
            /\ Cardinality(IndicesOf(code, "JmpIfFalse")) = 1 + CountOf(tokens, "ElseIf")
            /\ \A k \in IndicesOf(code, "Jmp") : k + 1 + At(code, k).a = after
            /\ \A j \in IndicesOf(code, "JmpIfFalse") :
                   IF JmpsAfter(code, j) # {}
                   THEN j + 1 + At(code, j).a = Min(JmpsAfter(code, j)) + 1
                   ELSE /\ "Else" \notin Kinds(tokens)
                        /\ j + 1 + At(code, j).a = after
            /\ "Else" \in Kinds(tokens) =>
                   JmpsAfter(code, Max(IndicesOf(code, "JmpIfFalse"))) # {}

\* IF true THEN x; ELSEIF true THEN ELSEIF true THEN x; ELSE x; END x;
\* compiled: three boundaries, bodies with and without code, code after END.
C25_Witness ==
    /\ op = "compile" /\ result = "Continue"
    /\ Last(source) \in IfChains /\ ElseLast(Last(source))
    /\ "End" \in Kinds(Last(source))
    /\ CountOf(Last(source), "ElseIf") = 2 /\ CountOf(Last(source), "Else") = 1
    /\ AfterIf(Last(source), module.code) = Len(module.code) - 3
    /\ Cardinality(IndicesOf(module.code, "Jmp")) = 3
    /\ Cardinality(IndicesOf(module.code, "Pop")) = 4

\* C26: whatever the token vector, a Module compile returns holds no Jmp
\* and no JmpIfFalse with a placeholder displacement, and every jump of it
\* targets an index inside its code.
C26_EveryModulePatched ==
    (op = "compile" /\ result = "Continue") =>
        \A k \in IndicesOf(module.code, "Jmp") \cup IndicesOf(module.code, "JmpIfFalse") :
            /\ At(module.code, k).a \notin {DeadAddr, DeadBob}
            /\ k + 1 + At(module.code, k).a \in 0..(Len(module.code) - 1)

\* C27: compile of any token vector returns a Module or an error: no round
\* of the loop of compile (compiler.rs 19-21) or of the body loop of
\* compile_while_stmt (106-112) ends without an error and without a token
\* consumed, which would be repeated for ever.
C27_CompileTerminates ==
    op = "compile" => result \in {"Continue", "Error"}

(***************************************************************************)
(* The lexer (lexer.rs 38-235) on the characters of a text.  A character   *)
(* is a string of length one; pos is the number of characters the iterator *)
(* chars has given out.  No token's kind or data, and no branch, depends   *)
(* on col and line: LexFrom leaves them out, and LocateFrom follows the    *)
(* same loop for the line of each token.  col is left out.  err is "Hang"  *)
(* when a loop goes round without taking a character and without a break.  *)
(***************************************************************************)
\* The comment character U+2665, written in ASCII.
Heart == "<3"
\* char::is_ascii_digit, char::is_ascii_alphabetic
IsAsciiDigit(c) == c \in {"0", "1", "2", "3", "4", "5", "6", "7", "8", "9"}
IsAsciiAlphabetic(c) ==
    c \in {"a", "b", "c", "d", "e", "f", "g", "h", "i", "j", "k", "l", "m", "n", "o",
           "p", "q", "r", "s", "t", "u", "v", "w", "x", "y", "z", "A", "B", "C", "D",
           "E", "F", "G", "H", "I", "J", "K", "L", "M", "N", "O", "P", "Q", "R", "S",
           "T", "U", "V", "W", "X", "Y", "Z"}
\* The tokens of one character (lexer.rs 47-88).
PunctuationKind ==
    ("." :> "Dot") @@ ("=" :> "Equal") @@ (";" :> "Semicolon") @@ ("(" :> "LParen")
    @@ (")" :> "RParen") @@ ("," :> "Comma") @@ ("-" :> "Minus")
\* lexer.rs 199-212
KeywordKind(ident) ==
    CASE ident = "true" -> "True"
      [] ident = "false" -> "False"
      [] ident = "nil" -> "Nil"
      [] ident = "IF" -> "If"
      [] ident = "ELSE" -> "Else"
      [] ident = "ELSEIF" -> "ElseIf"
      [] ident = "THEN" -> "Then"
      [] ident = "WHILE" -> "While"
      [] ident = "DO" -> "Do"
      [] ident = "END" -> "End"
      [] ident = "ALLOC" -> "Alloc"
      [] OTHER -> "Ident"

RECURSIVE Join(_, _, _), CommentEnd(_, _), StringEnd(_, _), NumberEnd(_, _),
          IdentEnd(_, _), LexFrom(_, _, _), AfterComment(_, _, _),
          AfterLexeme(_, _, _, _, _)

\* The characters from the from-th to the to-th joined (collect, join "").
Join(chars, from, to) ==
    IF from > to THEN "" ELSE chars[from] \o Join(chars, from + 1, to)

\* The loop of the comment branch (lexer.rs 105-115): characters are taken
\* until a newline is peeked; when nothing is left to peek, the loop has
\* no break.  The answer is pos at the break, None when there is none.
CommentEnd(chars, pos) ==
    IF pos >= Len(chars) THEN None
    ELSE IF chars[pos + 1] = "\n" THEN pos
    ELSE CommentEnd(chars, pos + 1)

\* The loop of the string branch (lexer.rs 122-136): up to and with the
\* closing quote, or to the end of the text.
StringEnd(chars, pos) ==
    IF pos >= Len(chars) THEN pos
    ELSE IF chars[pos + 1] # "\"" THEN StringEnd(chars, pos + 1)
    ELSE pos + 1

\* lexer.rs 153-165
NumberEnd(chars, pos) ==
    IF pos < Len(chars) /\ IsAsciiDigit(chars[pos + 1])
    THEN NumberEnd(chars, pos + 1)
    ELSE pos

\* lexer.rs 182-194
IdentEnd(chars, pos) ==
    IF pos < Len(chars)
       /\ (IsAsciiAlphabetic(chars[pos + 1]) \/ IsAsciiDigit(chars[pos + 1])
           \/ chars[pos + 1] = "_")
    THEN IdentEnd(chars, pos + 1)
    ELSE pos

\* After the comment loop: line += 1; continue (lexer.rs 117-118).
AfterComment(chars, end, tokens) ==
    IF end = None THEN [tokens |-> tokens, err |-> "Hang"]
    ELSE LexFrom(chars, end, tokens)

\* The token of the characters start..end pushed (lexer.rs 138-149,
\* 167-178, 196-219, 226-227).
AfterLexeme(chars, start, end, kind, tokens) ==
    LexFrom(chars, end,
            Append(tokens,
                   Token(IF kind = "Word" THEN KeywordKind(Join(chars, start, end))
                         ELSE kind,
                         Join(chars, start, end))))

\* The loop `while let Some(char) = chars.next()` (lexer.rs 45-228).
LexFrom(chars, pos, tokens) ==
    IF pos >= Len(chars) THEN [tokens |-> tokens, err |-> ""]
    ELSE LET char == chars[pos + 1]
         IN  IF char \in DOMAIN PunctuationKind
             THEN LexFrom(chars, pos + 1,
                          Append(tokens, Token(PunctuationKind[char], char)))
             ELSE IF char \in {"\n", "\r", " "} THEN LexFrom(chars, pos + 1, tokens)
             ELSE IF char = Heart
             THEN AfterComment(chars, CommentEnd(chars, pos + 1), tokens)
             ELSE IF char = "\""
             THEN AfterLexeme(chars, pos + 1, StringEnd(chars, pos + 1), "String", tokens)
             ELSE IF IsAsciiDigit(char)
             THEN AfterLexeme(chars, pos + 1, NumberEnd(chars, pos + 1), "Number", tokens)
             ELSE IF IsAsciiAlphabetic(char)
             THEN AfterLexeme(chars, pos + 1, IdentEnd(chars, pos + 1), "Word", tokens)
             ELSE [tokens |-> tokens, err |-> "UnexpectedCharacter"]

\* lex(src)
LexText(chars) == LexFrom(chars, 0, << >>)

(***************************************************************************)
(* The variable line of lex (lexer.rs 43): 1 at the start, one more for    *)
(* every newline the main loop takes (90-94) and one more after every      *)
(* comment (117).  LocateFrom answers, for each token pushed, the line it  *)
(* was given and the index in the text of its first character.             *)
(***************************************************************************)
RECURSIVE LocateFrom(_, _, _, _), LocateAfterComment(_, _, _, _)

\* line += 1; continue (lexer.rs 117-118)
LocateAfterComment(chars, end, line, at) ==
    IF end = None THEN at ELSE LocateFrom(chars, end, line + 1, at)

LocateFrom(chars, pos, line, at) ==
    IF pos >= Len(chars) THEN at
    ELSE LET char == chars[pos + 1]
             here == Append(at, [line |-> line, start |-> pos + 1])
         IN  IF char \in DOMAIN PunctuationKind THEN LocateFrom(chars, pos + 1, line, here)
             ELSE IF char = "\n" THEN LocateFrom(chars, pos + 1, line + 1, at)
             ELSE IF char \in {"\r", " "} THEN LocateFrom(chars, pos + 1, line, at)
             ELSE IF char = Heart
             THEN LocateAfterComment(chars, CommentEnd(chars, pos + 1), line, at)
             ELSE IF char = "\""
             THEN LocateFrom(chars, StringEnd(chars, pos + 1), line, here)
             ELSE IF IsAsciiDigit(char)
             THEN LocateFrom(chars, NumberEnd(chars, pos + 1), line, here)
             ELSE IF IsAsciiAlphabetic(char)
             THEN LocateFrom(chars, IdentEnd(chars, pos + 1), line, here)
             ELSE at

\* The tokens with the line lex gave them.
Located(tokens, at) ==
    [j \in 1..Len(tokens) |->
        [kind |-> tokens[j].kind, data |-> tokens[j].data,
         line |-> at[j].line, start |-> at[j].start]]

(***************************************************************************)
(* LexSpec: lex called on any text of at most MaxChars characters of       *)
(* TextAlphabet.  source holds the text, ret the tokens returned, each     *)
(* with its line and, for the claims, the index of its first character.    *)
(***************************************************************************)
\* Length of the texts.
MaxChars == 4
TextAlphabet == {";", "\n", " ", Heart, "\"", "1", "I", "F", "_", "#"}
Texts == UNION {[1..n -> TextAlphabet] : n \in 0..MaxChars}

LexInit == HostInit(MainNatives)

Lexed(text, r) ==
    /\ source' = Append(source, text)
    /\ ret' = r.tokens
    /\ result' = IF r.err = "" THEN "Ok"
                 ELSE IF r.err = "Hang" THEN "Hang"
                 ELSE "Error"
    /\ op' = "lex"
    /\ prevOp' = op
    /\ pre' = Snapshot
    /\ UNCHANGED <<heap, globals, global_name_map, field_to_id_map, functions,
                   stack, ip, interner, gc_metrics, module, events, inst,
                   needs_gc, marked, output>>

LexRun ==
    /\ op = "new"
    /\ \E text \in Texts :
           Lexed(text, [tokens |-> Located(LexText(text).tokens,
                                           LocateFrom(text, 0, 1, << >>)),
                        err |-> LexText(text).err])

LexNext == LexRun

LexSpec == LexInit /\ [][LexNext]_vars

(***************************************************************************)
(* The lexer (LexSpec).                                                    *)
(***************************************************************************)
\* C28: lex of any text returns a token vector or an unexpected-character
\* error: no loop of it goes round for ever, also when the text ends in a
\* comment without a newline or inside a string literal.
C28_LexTerminates ==
    op = "lex" => result \in {"Ok", "Error"}

(***************************************************************************)
(* Allocation on the heap under any sequence of its calls (HeapSpec).      *)
(***************************************************************************)
\* C29: in every state reached through alloc, alloc_extern, take_extern,
\* free and sweep, heap.alloc() answers None only when no slot is Free, and
\* when a slot is Free it answers a slot that was Free.
C29_RequestGCOnlyOnExhaustion ==
    result # "Fatal" =>
        LET r == HeapAlloc(heap)
        IN  /\ (~r.panic /\ r.ret = None) => FreeSlots(heap) = {}
            /\ FreeSlots(heap) # {} => (~r.panic /\ r.ret \in FreeSlots(heap))

(***************************************************************************)
(* gc_app (gc.rs 28-84).  The SDL context and the video subsystem are      *)
(* looked up through the extern globals with get_extern, which is          *)
(* unreachable!() on an Object slot; the event pump is looked up with      *)
(* try_take_extern, which empties every slot it is tried on; the user      *)
(* marks slots and finishes the cycle (GcApp::update sweeps, gc.rs 284) or *)
(* closes the window; the event pump taken is put back with insert.        *)
(***************************************************************************)
RECURSIVE BorrowLookup(_, _, _, _), TakeLookup(_, _, _)

\* globals.filter_map(try_as_extern).filter_map(get_extern).find_map(
\* try_borrow::<ty>) from the i-th global on (gc.rs 30-35, 38-43): TRUE
\* when get_extern panics before an extern of the type is found.
BorrowLookup(h, gs, i, ty) ==
    IF i > Len(gs) THEN FALSE
    ELSE IF gs[i].t # "ExternObject" THEN BorrowLookup(h, gs, i + 1, ty)
    ELSE IF HeapGetExtern(h, gs[i].v).panic THEN TRUE
    ELSE IF HeapGetExtern(h, gs[i].v).some /\ HeapGetExtern(h, gs[i].v).ty = ty
    THEN FALSE
    ELSE BorrowLookup(h, gs, i + 1, ty)

\* globals.filter_map(try_as_extern).filter_map(try_take_extern(addr).zip)
\* .find_map(into_obj::<EventPump>) from the i-th global on (gc.rs 51-56):
\* the heap the lookup leaves and the address found, None for u32::MAX.
TakeLookup(h, gs, i) ==
    IF i > Len(gs) THEN [heap |-> h, addr |-> None]
    ELSE IF gs[i].t # "ExternObject" THEN TakeLookup(h, gs, i + 1)
    ELSE IF HeapTryTakeExtern(h, gs[i].v).ret # None
            /\ HeapTryTakeExtern(h, gs[i].v).ty = "EventPump"
    THEN [heap |-> HeapTryTakeExtern(h, gs[i].v).heap, addr |-> gs[i].v]
    ELSE TakeLookup(HeapTryTakeExtern(h, gs[i].v).heap, gs, i + 1)

\* The cycle: heap.sweep(&marked) when the user finishes it (gc.rs 284).
GcCycle(h, marks, finish) ==
    IF finish THEN HeapSweep(h, marks) ELSE [heap |-> h, ret |-> 0, panic |-> FALSE]

\* gc.rs 81-83
GcPutBack(h, addr) ==
    IF addr # None THEN HeapInsert(h, addr, "EventPump").heap ELSE h

(***************************************************************************)
(* GcSpec: a program allocates objects and externs (an SDL context, an    *)
(* event pump) and binds them to globals or drops them; then gc_app runs,  *)
(* with any marks.  ret holds the address the event pump was taken from,   *)
(* None when none was found.                                               *)
(***************************************************************************)
GcNames == <<"g1", "g2", "g3", "g4", "g5", "g6">>
GcExternTypes == {"Sdl", "EventPump"}

GcInit == HostInit(<< >>)

\* An allocation of the program: r is what the heap answered, value the
\* Value for it; keep says whether a global is assigned it.
GcAllocated(name, r, value, keep) ==
    /\ op \in {"new", "alloc", "alloc_extern"}
    /\ r.ret # None /\ ~r.panic
    /\ heap' = r.heap
    /\ globals' = IF keep THEN Push(globals, value) ELSE globals
    /\ global_name_map' = IF keep
                          THEN MapInsert(global_name_map, GcNames[Len(globals) + 1],
                                         Len(globals))
                          ELSE global_name_map
    /\ ret' = r.ret
    /\ op' = name
    /\ prevOp' = op
    /\ pre' = Snapshot
    /\ UNCHANGED <<field_to_id_map, functions, stack, ip, interner, gc_metrics,
                   module, events, result, inst, needs_gc, marked, output, source>>

\* x = ALLOC; or ALLOC;
GcAlloc ==
    \E keep \in BOOLEAN :
        \E r \in {HeapAlloc(heap)} : GcAllocated("alloc", r, Object(r.ret), keep)

\* x = init_sdl(); x = create_event_pump(s); or the same without a global
GcAllocExtern ==
    \E ty \in GcExternTypes, keep \in BOOLEAN :
        \E r \in {HeapAllocExtern(heap, ty)} :
            GcAllocated("alloc_extern", r, ExternObject(r.ret), keep)

\* gc_app(runtime) with the marks the user sets; finish is FALSE when the
\* window is closed without Finish Cycle.
GcApp ==
    /\ op \in {"new", "alloc", "alloc_extern"}
    /\ \E marks \in MarkVectors, finish \in BOOLEAN :
           \E panic \in {BorrowLookup(heap, globals, 1, "Sdl")
                          \/ BorrowLookup(heap, globals, 1, "VideoSubsystem")},
              t \in {TakeLookup(heap, globals, 1)} :
               \E c \in {GcCycle(t.heap, marks, finish)} :
                   /\ heap' = IF panic THEN heap ELSE GcPutBack(c.heap, t.addr)
                   /\ result' = IF panic THEN "Fatal" ELSE "Ok"
                   /\ ret' = IF panic THEN None ELSE t.addr
                   /\ marked' = marks
                   /\ gc_metrics' = IF panic THEN gc_metrics
                                     ELSE [gc_metrics EXCEPT
                                              !.total_garbage_collected = @ + c.ret]
                   /\ op' = IF finish THEN "gc_app" ELSE "gc_app_closed"
    /\ prevOp' = op
    /\ pre' = Snapshot
    /\ UNCHANGED <<globals, global_name_map, field_to_id_map, functions, stack, ip,
                   interner, module, events, inst, needs_gc, output, source>>

GcNext == GcAlloc \/ GcAllocExtern \/ GcApp

GcSpec == GcInit /\ [][GcNext]_vars

(***************************************************************************)
(* The collection cycle with an event pump (GcSpec).                       *)
(***************************************************************************)
\* C30: when gc_app, on a heap whose free list is in order, takes an event
\* pump out of slot addr and the user finishes the cycle with any marks,
\* then after gc_app slot addr is Extern, every marked slot that was
\* occupied holds what it held, and the free list from the head threads
\* exactly the Free slots and ends at the heap's size.
C30_CycleWithEventPump ==
    (op = "gc_app" /\ result # "Fatal" /\ ret # None /\ WellFormed(pre.heap)) =>
        /\ heap.objects[ret].k = "Extern"
        /\ \A i \in DOMAIN heap.objects :
               (marked[i] /\ pre.heap.objects[i].k # "Free" /\ i # ret) =>
                   heap.objects[i] = pre.heap.objects[i]
        /\ WellFormed(heap)

(***************************************************************************)
(* try_take_extern on the heap under any sequence of its calls (HeapSpec). *)
(***************************************************************************)
\* C31: try_take_extern(addr) that finds no Extern in slot addr returns
\* None and leaves every slot and the free head as they were; one that
\* returns Some leaves slot addr Free at the head of the free list and the
\* other slots as they were.
C31_TryTakeExternMissKeepsHeap ==
    (op = "try_take_extern" /\ result # "Fatal") =>
        IF ret = None
        THEN heap = pre.heap
        ELSE /\ heap.next_free = ret
             /\ heap.objects[ret] = HvFree(pre.heap.next_free)
             /\ \A i \in DOMAIN heap.objects \ {ret} :
                    heap.objects[i] = pre.heap.objects[i]

\* C32: free(a) on an occupied slot a followed at once by alloc or
\* alloc_extern: the allocation returns a, and the free head and every slot
\* other than a are afterwards what they were before free(a).
C32_FreeThenAllocRestores ==
    [][(/\ op = "free"
        /\ result # "Fatal"
        /\ pre.heap.objects[ret].k # "Free"
        /\ op' \in {"alloc", "alloc_extern"})
       => (/\ result' = "Ok"
           /\ ret' = ret
           /\ heap'.next_free = pre.heap.next_free
           /\ heap'.objects[ret].k # "Free"
           /\ \A i \in DOMAIN heap.objects \ {ret} :
                  heap'.objects[i] = pre.heap.objects[i])]_vars

\* free has just emptied an object that had a field, while the other slot
\* holds an extern and the free list was empty: the state the allocation
\* starts from.
C32_Witness ==
    /\ op = "free"
    /\ result # "Fatal"
    /\ pre.heap.objects[ret].k = "Object"
    /\ DOMAIN pre.heap.objects[ret].data # {}
    /\ pre.heap.next_free = HeapSize(heap)
    /\ \E i \in DOMAIN heap.objects \ {ret} : heap.objects[i].k = "Extern"

(***************************************************************************)
(* Slots taken again by Alloc (Spec).                                      *)
(***************************************************************************)
\* An Alloc step that pushed its object.
AllocPushed == op = "step" /\ inst.i = "Alloc" /\ result = "Continue"

\* The ids compile gave to the field names of the program.
FieldIds == {field_to_id_map[name] : name \in DOMAIN field_to_id_map}

\* The globals that hold the value.
HandlesOf(value) == {g \in 0..(Len(globals) - 1) : At(globals, g) = value}

\* C33: when Alloc pushes Object(a), slot a was Free and now holds an
\* object without fields, also when it held an object with fields before a
\* sweep freed it; IndexGet of any field through a handle to a that a global
\* kept from before pushes Nil.
C33_ReusedSlotsStartEmpty ==
    AllocPushed =>
        LET value == Last(stack)
        IN  /\ value.t = "Object"
            /\ pre.heap.objects[value.v].k = "Free"
            /\ heap.objects[value.v] = HvObject(EmptyMap)
            /\ \A g \in HandlesOf(value), f \in FieldIds :
                   LET out == ExecIndexGet([Fetched EXCEPT !.stack = <<At(globals, g)>>], f)
                   IN  out.flow = "Continue" /\ out.rt.stack = <<Nil>>

\* d = ALLOC; d.f = 1; d.h = true; and later, in the loop, an Alloc that was
\* given the slot d still names, after a sweep freed it.
C33_Witness ==
    /\ AllocPushed
    /\ module.code = ProgFieldLoop.code
    /\ ip > 12
    /\ At(globals, 5) = Last(stack)
    /\ FieldIds # {}

(***************************************************************************)
(* The instruction pointer during a run (LangSpec).                        *)
(***************************************************************************)
\* C34: in the Module compile made of a source of the grammar, the last
\* instruction is Halt and no other is; before every fetch of the run
\* 0 <= ip < len(code); step returns Halt only from ip = len(code) - 1.
C34_IpInRange ==
    (op \in {"compile", "step"} /\ module # NoModule) =>
        /\ Len(module.code) > 0
        /\ Last(module.code) = Halt
        /\ \A j \in 0..(Len(module.code) - 2) : At(module.code, j).i # "Halt"
        /\ Running => (0 <= ip /\ ip < Len(module.code))
        /\ (op = "step" /\ result = "Halt") => pre.ip = Len(module.code) - 1

\* Halt returned at the end of a source whose last statement is a WHILE that
\* ran its body: the jump back and the exit jump over it were both taken.
C34_Witness ==
    /\ op = "step"
    /\ result = "Halt"
    /\ Len(module.code) > 2
    /\ At(module.code, Len(module.code) - 2).i = "Jmp"
    /\ At(module.code, Len(module.code) - 2).a < 0
    /\ output # << >>

(***************************************************************************)
(* The stack between statements (LangSpec).                                *)
(***************************************************************************)
\* The instruction a jump at index j goes to.
JumpTarget(code, j) == SaturatingAddSigned(j + 1, At(code, j).a)

\* Where statements begin in the code of a Module: at 0, after the Pop that
\* ends an expression statement, after a jump (the first statement of a body,
\* of an ELSE, or the statement that follows a WHILE) and where a jump lands
\* (the head of a WHILE, the statement that follows an IF or a WHILE, Halt).
\* The set also holds the first instruction of every ELSEIF condition.
StatementStarts(code) ==
    {0}
    \cup {j + 1 : j \in {k \in 0..(Len(code) - 2) :
                            At(code, k).i \in {"Pop", "Jmp", "JmpIfFalse"}}}
    \cup {JumpTarget(code, j) : j \in {k \in 0..(Len(code) - 1) :
                                           At(code, k).i \in {"Jmp", "JmpIfFalse"}}}
    \cup {Len(code) - 1}

\* C35: in a run that started with an empty stack and has hit no fatal
\* error, the stack is empty whenever ip is at the first instruction of a
\* statement, at the head of every WHILE iteration and at Halt.
C35_StackEmptyAtStatements ==
    (op \in {"compile", "step"} /\ module # NoModule /\ result # "Fatal") =>
        /\ (Running /\ ip \in StatementStarts(module.code)) => stack = << >>
        /\ result = "Halt" => stack = << >>

\* Back at the head of a WHILE after an iteration that printed: the step was
\* the jump back, and the stack is empty however many iterations went by.
C35_Witness ==
    /\ op = "step"
    /\ result = "Continue"
    /\ inst.i = "Jmp"
    /\ inst.a < 0
    /\ ip \in StatementStarts(module.code)
    /\ Len(output) >= 2

(***************************************************************************)
(* MemberSpec: one run of a source that uses a member expression where the *)
(* enclosing construct needs its value: as the argument of a call, as the  *)
(* right-hand side of a store and as the condition of an IF.  The member   *)
(* is one of each production of the grammar; the calls also come with      *)
(* several arguments.                                                      *)
(***************************************************************************)
Members ==
    { ENum(1), EStr("hi"), ENil, ETrue, EFalse, EAlloc,
      EIdent("x"),                              \* global load
      EAssign("x", ENum(1)),                    \* global store
      ECall("add", <<ENum(1), ENum(2)>>),       \* call
      EGet(EIdent("o"), "f"),                   \* field load
      ESet(EIdent("o"), "f", ENum(1)),          \* field store
      EInvoke(EIdent("o"), "m", << >>) }        \* method invoke (reserved)

\* o = ALLOC; print(m);
AsArgument(m) == <<SExpr(EAssign("o", EAlloc)), SExpr(ECall("print", <<m>>))>>
\* o = ALLOC; a = m;
AsRightHandSide(m) == <<SExpr(EAssign("o", EAlloc)), SExpr(EAssign("a", m))>>
\* o = ALLOC; IF m THEN print(1); ELSE print(2); END
AsCondition(m) ==
    <<SExpr(EAssign("o", EAlloc)), SIf(<<Arm(m, <<Marker(1)>>)>>, TRUE, <<Marker(2)>>)>>

\* Calls of a native with 0 to MaxArgs arguments, each a literal, a global
\* load or a global store, with and without the trailing comma.
MaxArgs == 3
ArgMembers == {ETrue, ENil, EIdent("x"), EAssign("x", ETrue)}
ArgLists == UNION {[1..n -> ArgMembers] : n \in 0..MaxArgs}
Callees == {"print", "add"}
\* o = ALLOC; callee(args);   or   o = ALLOC; callee(args,);
CallOf(callee, args, comma) ==
    <<SExpr(EAssign("o", EAlloc)),
      SExpr(IF comma THEN ECallComma(callee, args) ELSE ECall(callee, args))>>
CallSources ==
    {CallOf(callee, args, FALSE) : callee \in Callees, args \in ArgLists}
        \cup {CallOf(callee, args, TRUE) : callee \in Callees, args \in ArgLists \ {<< >>}}

MemberSources ==
    {AsArgument(m) : m \in Members} \cup {AsRightHandSide(m) : m \in Members}
        \cup {AsCondition(m) : m \in Members} \cup CallSources

MemberInit == HostInit(MainNatives)

MemberRun ==
    /\ op = "new"
    /\ \E src \in MemberSources : RunSource(src)

MemberNext == MemberRun \/ Step

MemberSpec == MemberInit /\ [][MemberNext]_vars

\* The step fetched the instruction that uses the member: the Call of
\* print, the Store of a (each followed by Pop and Halt), or the JmpIfFalse.
UsesMember ==
    /\ op = "step"
    /\ Len(source) = 1
    /\ \/ /\ \E m \in Members : source[1] \in {AsArgument(m), AsRightHandSide(m)}
          /\ pre.ip = Len(module.code) - 3
       \/ /\ \E m \in Members : source[1] = AsCondition(m)
          /\ inst.i = "JmpIfFalse"

\* What the construct had put on the stack before the member: the callee.
DepthBefore == IF inst.i = "Call" THEN 1 ELSE 0

\* C36: the instructions of a member (literal, ALLOC, global load, global
\* store, call, field load, field store), run to completion, leave the stack
\* one value deeper than before, so that the Call, Store or JmpIfFalse that
\* follows finds the member's value, also when the member is a store.
C36_MemberYieldsOneValue ==
    UsesMember =>
        /\ Len(pre.stack) = DepthBefore + 1
        /\ result = "Continue"

(***************************************************************************)
(* The code of a call and the stack at its Call (MemberSpec).              *)
(***************************************************************************)
\* The call of a source of CallSources.
CallExpr == source[1][2].e

\* The index compile gave to a global.
Gid(name) == global_name_map[name]

\* The instructions of an argument.
ArgCode(e) ==
    CASE e = ETrue -> <<LoadTrue>>
      [] e = ENil -> <<LoadNil>>
      [] e = EIdent("x") -> <<Load(Gid("x"))>>
      [] e = EAssign("x", ETrue) -> <<LoadTrue, Store(Gid("x"))>>

RECURSIVE ArgsCode(_, _)
ArgsCode(args, i) ==
    IF i > Len(args) THEN << >> ELSE ArgCode(args[i]) \o ArgsCode(args, i + 1)

\* The value of an argument, given the globals when the Call is fetched.
ArgValue(e, gs) ==
    CASE e = ETrue -> Bool(TRUE)
      [] e = ENil -> Nil
      [] e = EIdent("x") -> At(gs, Gid("x"))
      [] e = EAssign("x", ETrue) -> Bool(TRUE)

\* C37: for IDENT ( e1, ..., en ), with or without a trailing comma, compile
\* emits Load{gid(IDENT)}, the code of e1 ... en from left to right, then
\* Call{args = n}; when the Call is fetched the callee is at
\* stack[len - n - 1] and the value of en is on top.
C37_CallEmission ==
    (Len(source) = 1 /\ source[1] \in CallSources /\ op \in {"compile", "step"}) =>
        LET args == CallExpr.args
            n == Len(args)
        IN  /\ result # "Error"
            /\ module.code =
                   <<Alloc, Store(Gid("o")), Pop, Load(Gid(CallExpr.name))>>
                   \o ArgsCode(args, 1) \o <<Call(n), Pop, Halt>>
            /\ (op = "step" /\ pre.ip = Len(module.code) - 3) =>
                   /\ Len(pre.stack) >= n + 1
                   /\ At(pre.stack, Len(pre.stack) - n - 1) = At(globals, Gid(CallExpr.name))
                   /\ n > 0 => Last(pre.stack) = ArgValue(args[n], pre.globals)

(***************************************************************************)
(* DriverSpec: run of main.rs (226-258) on the Runtime main builds:        *)
(* Runtime::new(), whose heap has 20 slots (vm.rs 368), with the natives   *)
(* registered.  The loop steps until Halt; on RequestGC it frees the slots *)
(* 0 to 4 (main.rs 245-249) and steps again.  The line the driver prints   *)
(* on RequestGC is not kept in output.                                     *)
(***************************************************************************)
DriverHeapSize == 20
\* The addresses freed on RequestGC, in the order of the calls.
DriverFreed == <<0, 1, 2, 3, 4>>

\* b = ALLOC; k times.
Filler(k) == [j \in 1..k |-> SExpr(EAssign("b", EAlloc))]

DriverSources ==
    { \* WHILE true DO a = ALLOC; END
      <<SWhile(ETrue, <<SExpr(EAssign("a", EAlloc))>>)>>,
      \* a = ALLOC; b = ALLOC; (20 times) a.f = 1;
      <<SExpr(EAssign("a", EAlloc))>> \o Filler(DriverHeapSize)
          \o <<SExpr(ESet(EIdent("a"), "f", ENum(1)))>>,
      \* b = ALLOC; (26 times) print(1);
      Filler(DriverHeapSize + 6) \o <<Marker(1)>>,
      \* x = alloc(); (21 times)
      [j \in 1..(DriverHeapSize + 1) |-> SExpr(EAssign("x", ECall("alloc", << >>)))],
      \* i = 0; WHILE lt(i, 1) DO i = add(i, 1); END  o = ALLOC; o.f = "hi";
      \* print(o.f); IF nil THEN print(1); ELSE print(2); END IF false THEN END
      \* o.m();
      WhileOf(1, << >>, 1)
          \o <<SExpr(EAssign("o", EAlloc)), SExpr(ESet(EIdent("o"), "f", EStr("hi"))),
               SExpr(ECall("print", <<EGet(EIdent("o"), "f")>>)),
               SIf(<<Arm(ENil, <<Marker(1)>>)>>, TRUE, <<Marker(2)>>),
               SIf(<<Arm(EFalse, << >>)>>, FALSE, << >>),
               SExpr(EInvoke(EIdent("o"), "m", << >>))>> }

DriverInit ==
    /\ heap = HeapNew(DriverHeapSize)
    /\ globals = Registered(MainNatives).globals
    /\ global_name_map = Registered(MainNatives).names
    /\ field_to_id_map = EmptyMap
    /\ functions = MainNatives
    /\ stack = << >>
    /\ ip = 0
    /\ interner = << >>
    /\ gc_metrics = [total_cycles |-> 0, total_garbage_collected |-> 0]
    /\ module = NoModule
    /\ events = << >>
    /\ output = << >>
    /\ source = << >>
    /\ op = "new"
    /\ prevOp = "new"
    /\ result = "Ok"
    /\ inst = Halt
    /\ needs_gc = FALSE
    /\ pre = Snapshot
    /\ marked = NoMarks
    /\ ret = None

DriverRun ==
    /\ op = "new"
    /\ \E src \in DriverSources : RunSource(src)

\* heap.free(addrs[i]); ... in turn; a panic ends the run.
RECURSIVE FreeEach(_, _, _)
FreeEach(h, addrs, i) ==
    IF i > Len(addrs) THEN [heap |-> h, panic |-> FALSE]
    ELSE IF HeapFree(h, addrs[i]).panic THEN [heap |-> h, panic |-> TRUE]
    ELSE FreeEach(HeapFree(h, addrs[i]).heap, addrs, i + 1)

\* The RequestGC arm of the loop (main.rs 241-250).
DriverCollect ==
    /\ op = "step"
    /\ result = "RequestGC"
    /\ \E r \in {FreeEach(heap, DriverFreed, 1)} :
           /\ heap' = r.heap
           /\ result' = IF r.panic THEN "Fatal" ELSE result
    /\ op' = "collect"
    /\ prevOp' = op
    /\ pre' = Snapshot
    /\ UNCHANGED <<globals, global_name_map, field_to_id_map, functions, stack, ip,
                   interner, gc_metrics, module, events, inst, needs_gc, marked, ret,
                   output, source>>

\* vm.step() (main.rs 239): after RequestGC only once the slots are freed.
DriverStep ==
    /\ result = "RequestGC" => op = "collect"
    /\ Step

DriverNext == DriverRun \/ DriverStep \/ DriverCollect \/ Reset

DriverSpec == DriverInit /\ [][DriverNext]_vars

\* C38: in the run loop of main.rs the step after the frees of a RequestGC
\* is the Alloc again and it succeeds; the free list never holds a cycle,
\* however many times the driver collects; a program without a WHILE never
\* dies on the way to its Halt.
C38_DriverProgress ==
    /\ (op = "step" /\ prevOp = "collect") =>
           /\ inst.i = "Alloc"
           /\ result = "Continue"
           /\ Len(stack) = Len(pre.stack) + 1
           /\ Last(stack).t = "Object"
    /\ FreeChain(heap).why # "cycle"
    /\ ~Uses("While") => result # "Fatal"

(***************************************************************************)
(* The lines of the tokens (LexSpec).                                      *)
(***************************************************************************)
\* The number of newline characters before the k-th character of the text.
NewlinesBefore(chars, k) == Cardinality({i \in 1..(k - 1) : chars[i] = "\n"})

\* C39: in the tokens lex returns for a text, the line of each token is 1
\* plus the number of newline characters before its first character, also
\* when lines before it hold comments.
C39_TokenLines ==
    (op = "lex" /\ result = "Ok") =>
        \A j \in 1..Len(ret) :
            ret[j].line = 1 + NewlinesBefore(Last(source), ret[j].start)

=============================================================================
